---------------------------- MODULE Spec2Model ----------------------------
(***************************************************************************)
(* A model of DreamyGRO: the dependency scanner and packer for Serious     *)
(* Engine 1 resources (Source/Main.cpp, Source/DictionaryReader.cpp,       *)
(* Source/CommandLine.cpp).                                                *)
(*                                                                         *)
(* Bytes are integers 0..255; strings and file contents are sequences of   *)
(* bytes, written as the ASCII codes of their characters.  The globals of  *)
(* Main.cpp are the state variables.  The scanning functions are operators *)
(* on a record `g' of the globals they read and write, one operator for    *)
(* each stretch of a function, so that the scan of one file is one step.   *)
(***************************************************************************)
EXTENDS Integers, Sequences, FiniteSets, TLC

VARIABLES
  pc,                \* where main() is: "args", "scan", "pack", "done", "failed"
  _iFlags,           \* u32 _iFlags: packer behaviour flags (bit mask)
  _strMod,           \* CString _strMod: "" or "Mods/<name>/"
  _aScanFiles,       \* Strings_t _aScanFiles
  _astrDependencies, \* static Strings_t _astrDependencies (CommandLine.cpp)
  _aNoCompression,   \* Strings_t _aNoCompression
  _aStdDepends,      \* CHashArray _aStdDepends: hashes of lowercase names
  _aFilesToPack,     \* CListedFiles _aFilesToPack
  _bCountFiles,      \* bool _bCountFiles
  _ctFiles,          \* size_t _ctFiles
  iScanFile,         \* loop variable of main()'s scan loop
  ctArgs,            \* how many command line arguments have been consumed
  aArchive,          \* entries created in the output GRO
  aFailed,           \* CListedFiles aFailed of main()
  last,              \* history: what the last step was given and what it returned
  fx,                \* the normalizer on its own: input, outputs and flags
  strm               \* a scan followed pass by pass: the bytes and the cursor

vars == <<pc, _iFlags, _strMod, _aScanFiles, _astrDependencies, _aNoCompression,
          _aStdDepends, _aFilesToPack, _bCountFiles, _ctFiles, iScanFile, ctArgs,
          aArchive, aFailed, last, fx, strm>>

runVars == <<pc, _iFlags, _strMod, _aScanFiles, _astrDependencies, _aNoCompression,
             _aStdDepends, _aFilesToPack, _bCountFiles, _ctFiles, iScanFile, ctArgs,
             aArchive, aFailed, last, strm>>

(***************************************************************************)
(* Bounds of the model.                                                    *)
(***************************************************************************)
\* Longest raw filename given to the normalizer on its own.
MaxLen == 4
\* Most command line arguments of one run (the root argument not counted).
MaxArgs == 3

(***************************************************************************)
(* Characters and strings.                                                 *)
(***************************************************************************)
chSlash == 47
chBackslash == 92
chNull == 0
chPeriod == 46
chSpace == 32
chUnderscore == 95
chNewline == 10
chReturn == 13

Min(a, b) == IF a < b THEN a ELSE b
Max(a, b) == IF a > b THEN a ELSE b

RECURSIVE Concat(_)
\* The concatenation of a sequence of strings.
Concat(ss) == IF ss = <<>> THEN <<>> ELSE Head(ss) \o Concat(Tail(ss))

Contains(s, ch) == \E i \in 1..Len(s) : s[i] = ch

\* CString::StartsWith
StartsWith(s, p) == Len(p) <= Len(s) /\ SubSeq(s, 1, Len(p)) = p

\* CString::Replace(chOld, chNew): every occurrence
Replace(s, chOld, chNew) == [i \in 1..Len(s) |-> IF s[i] = chOld THEN chNew ELSE s[i]]

\* tolower() of a character
ToLowerChar(ch) == IF ch >= 65 /\ ch <= 90 THEN ch + 32 ELSE ch

\* CString::AsLower / ToLower
AsLower(s) == [i \in 1..Len(s) |-> ToLowerChar(s[i])]

\* std::string::erase(iFrom, ct), iFrom counted from 0
Erase(s, iFrom, ct) == SubSeq(s, 1, iFrom) \o SubSeq(s, iFrom + ct + 1, Len(s))

\* The positions (from 1) of the periods of the file name after the last separator
ExtDots(s) ==
  {i \in 1..Len(s) : s[i] = chPeriod
     /\ \A j \in (i + 1)..Len(s) : s[j] # chSlash /\ s[j] # chBackslash}

\* The position of the period that starts the extension, 0 if there is none
ExtPos(s) == IF ExtDots(s) = {} THEN 0 ELSE CHOOSE i \in ExtDots(s) : \A j \in ExtDots(s) : j <= i

\* CString::GetFileExt: the extension with its period, "" if none
GetFileExt(s) == IF ExtPos(s) = 0 THEN <<>> ELSE SubSeq(s, ExtPos(s), Len(s))

\* CString::RemoveExt
RemoveExt(s) == IF ExtPos(s) = 0 THEN s ELSE SubSeq(s, 1, ExtPos(s) - 1)

(***************************************************************************)
(* Packer flags (enum EPackerFlags) and the tests on them.                 *)
(***************************************************************************)
SCAN_SSR == 1
SCAN_INI == 2
SCAN_OGG == 4
SCAN_DEP == 8
SCAN_GRO == 16
SCAN_MOD == 32

AllFlagBits == {SCAN_SSR, SCAN_INI, SCAN_OGG, SCAN_DEP, SCAN_GRO, SCAN_MOD}

\* (iFlags & bit) != 0, for a single bit
HasFlag(iFlags, bit) == (iFlags \div bit) % 2 = 1

\* iFlags |= bit, for a single bit
SetFlag(iFlags, bit) == IF HasFlag(iFlags, bit) THEN iFlags ELSE iFlags + bit

IsRev(iFlags) == HasFlag(iFlags, SCAN_SSR)
PackINI(iFlags) == HasFlag(iFlags, SCAN_INI)
PackOGG(iFlags) == HasFlag(iFlags, SCAN_OGG)
OnlyDep(iFlags) == HasFlag(iFlags, SCAN_DEP)
DetectGRO(iFlags) == HasFlag(iFlags, SCAN_GRO)
EraseMod(iFlags) == HasFlag(iFlags, SCAN_MOD)

(***************************************************************************)
(* A call whose arguments are evaluated once before the body, as the       *)
(* arguments of a C++ call are.                                            *)
(***************************************************************************)
Call2(F(_, _), a, b) == CHOOSE r \in {F(x, y) : x \in {a}, y \in {b}} : TRUE

Call3(F(_, _, _), a, b, c) ==
  CHOOSE r \in {F(x, y, z) : x \in {a}, y \in {b}, z \in {c}} : TRUE

(***************************************************************************)
(* FixFilename (DictionaryReader.cpp).  The result is the fixed string and *)
(* the flags after the call.                                               *)
(***************************************************************************)
\* One pass of the loop over the characters: a slash followed by a slash is
\* dropped and marks SSR.  *itNext of the last character is the string's
\* terminator.
FixChar(s, i, r) ==
  IF s[i] = chSlash /\ (IF i < Len(s) THEN s[i + 1] ELSE chNull) = chSlash
  THEN [r EXCEPT !.flags = SetFlag(@, SCAN_SSR)]
  ELSE [r EXCEPT !.str = Append(@, s[i])]

RECURSIVE FixRange(_, _, _, _)
\* The passes of the loop for the characters lo..hi, in their order: the
\* result of the first half is worked out, then the second half goes on from it
FixRange(s, lo, hi, r) ==
  IF lo > hi THEN r
  ELSE IF lo = hi THEN FixChar(s, lo, r)
  ELSE CHOOSE rAll \in {FixRange(s, (lo + hi) \div 2 + 1, hi, rHalf) :
                          rHalf \in {FixRange(s, lo, (lo + hi) \div 2, r)}} : TRUE

\* The loop over the characters, from the i-th on
FixLoop(s, i, r) == FixRange(s, i, Len(s), r)

\* The end of FixFilename: a prefix slash is erased and marks SSR.
\* strFixed[0] of the empty string is its terminator.
StripPrefixSlash(r) ==
  IF Len(r.str) > 0 /\ r.str[1] = chSlash
  THEN [str |-> Tail(r.str), flags |-> SetFlag(r.flags, SCAN_SSR)]
  ELSE r

\* The beginning of FixFilename with the flags assigned, not or-ed
MarkForwardSlashAssigning(strFilename, iFlags) ==
  IF Contains(strFilename, chSlash) THEN SCAN_SSR ELSE iFlags

\* The beginning of FixFilename: a forward slash marks SSR
MarkForwardSlash(strFilename, iFlags) ==
  IF Contains(strFilename, chSlash) THEN SetFlag(iFlags, SCAN_SSR) ELSE iFlags

\* The normalizer with the prefix slash erased before the doubled slashes
\* are collapsed, not after.
FixFilenameStripFirst(strFilename, iFlags) ==
  FixLoop(StripPrefixSlash([str |-> Replace(strFilename, chBackslash, chSlash),
                            flags |-> MarkForwardSlash(strFilename, iFlags)]).str,
          1,
          [str |-> <<>>,
           flags |-> StripPrefixSlash([str |-> Replace(strFilename, chBackslash, chSlash),
                                       flags |-> MarkForwardSlash(strFilename, iFlags)]).flags])

\* The normalizer with the doubled slashes collapsed without marking SSR.
FixFilenameQuietCollapse(strFilename, iFlags) ==
  StripPrefixSlash(
    [str |-> FixLoop(Replace(strFilename, chBackslash, chSlash), 1,
                     [str |-> <<>>, flags |-> 0]).str,
     flags |-> MarkForwardSlash(strFilename, iFlags)])

\* The normalizer with the doubled slashes kept.
FixFilenameKeepRuns(strFilename, iFlags) ==
  StripPrefixSlash(
    [str |-> Replace(strFilename, chBackslash, chSlash),
     flags |-> FixLoop(Replace(strFilename, chBackslash, chSlash), 1,
                       [str |-> <<>>, flags |-> MarkForwardSlash(strFilename, iFlags)]).flags])

FixFilename(strFilename, iFlags) ==
  StripPrefixSlash(
    FixLoop(Replace(strFilename, chBackslash, chSlash), 1,
            [str |-> <<>>, flags |-> MarkForwardSlash(strFilename, iFlags)]))

(***************************************************************************)
(* The normalizer on its own: every raw filename of at most MaxLen         *)
(* characters over separators and letters of both cases, normalized once   *)
(* and then once more.                                                     *)
(***************************************************************************)
\* 'a', 'B', '/', '\\'
FixChars == {97, 66, chSlash, chBackslash}
FixInputs == UNION {[1..n -> FixChars] : n \in 0..MaxLen}
FixFlagStates == {0, SCAN_SSR, SCAN_INI + SCAN_MOD,
                  SCAN_SSR + SCAN_OGG + SCAN_DEP + SCAN_GRO}

FxIdle == [pc |-> "idle"]

FixInit ==
  \E raw \in FixInputs, f \in FixFlagStates :
    fx = [pc |-> "in", raw |-> raw, flags0 |-> f]

\* FixFilename(strFilename) on the raw name
FixOnce ==
  /\ fx.pc = "in"
  /\ \E r \in {FixFilename(fx.raw, fx.flags0)} :
       fx' = [pc |-> "fixed", raw |-> fx.raw, flags0 |-> fx.flags0,
              out1 |-> r.str, flags1 |-> r.flags]
  /\ UNCHANGED runVars

\* FixFilename on the name it returned, under any flags
FixTwice ==
  /\ fx.pc = "fixed"
  /\ \E f \in FixFlagStates \cup {fx.flags1} :
       \E r \in {FixFilename(fx.out1, f)} :
         fx' = [pc |-> "again", raw |-> fx.raw, flags0 |-> fx.flags0,
                out1 |-> fx.out1, flags1 |-> fx.flags1,
                flagsB |-> f, out2 |-> r.str, flags2 |-> r.flags]
  /\ UNCHANGED runVars

IsSep(ch) == ch = chSlash \/ ch = chBackslash
HasDoubleSlash(s) == \E i \in 1..Len(s) - 1 : s[i] = chSlash /\ s[i + 1] = chSlash
HasAdjacentSeps(s) == \E i \in 1..Len(s) - 1 : IsSep(s[i]) /\ IsSep(s[i + 1])
RECURSIVE NonSeps(_)
\* The characters of a string that are no separators, in order
NonSeps(s) ==
  IF s = <<>> THEN <<>>
  ELSE IF IsSep(Head(s)) THEN NonSeps(Tail(s)) ELSE <<Head(s)>> \o NonSeps(Tail(s))

(***************************************************************************)
(* Byte streams (CDataStream over a CFileDevice).  A position counts the   *)
(* bytes before the cursor.                                                *)
(***************************************************************************)
\* CDataStream::Peek(n) / Read(n): the next n bytes, fewer at the end
PeekBytes(data, pos, n) ==
  IF pos < 0 \/ pos >= Len(data) THEN <<>>
  ELSE SubSeq(data, pos + 1, Min(pos + n, Len(data)))

\* CDataStream::AtEnd
AtEnd(data, pos) == pos >= Len(data)

\* A 32-bit little-endian integer as its four bytes (n >= 0)
Int32(n) == <<n % 256, (n \div 256) % 256, (n \div 65536) % 256, (n \div 16777216) % 256>>

\* The signed value of four bytes, little-endian
S32Of(b) ==
  b[1] + 256 * b[2] + 65536 * b[3] + 16777216 * (IF b[4] >= 128 THEN b[4] - 256 ELSE b[4])

\* operator>>(s32 &): the signed value of the next four bytes; `iJunk' stands
\* for what the variable holds when the stream has fewer than four bytes left
\* (the variable is not initialized by the caller).
ReadS32(data, pos, iJunk) ==
  IF Len(PeekBytes(data, pos, 4)) < 4 THEN iJunk ELSE S32Of(PeekBytes(data, pos, 4))

\* The characters of a string read at `pos': as many as its length says
StringChars(data, pos, n) == IF n <= 0 THEN <<>> ELSE PeekBytes(data, pos + 4, n)

\* operator>>(CString &): a 32-bit length, then that many bytes
ReadString(data, pos) ==
  [str |-> StringChars(data, pos, ReadS32(data, pos, 0)),
   pos |-> Min(pos + 4, Max(Len(data), pos))
           + Len(StringChars(data, pos, ReadS32(data, pos, 0)))]

\* A string as operator<<(const CString &) writes it
WriteString(str) == Int32(Len(str)) \o str

\* The characters of a byte array up to its first null (CString from const char *)
RECURSIVE CStr(_)
CStr(bytes) ==
  IF bytes = <<>> \/ Head(bytes) = chNull THEN <<>>
  ELSE <<Head(bytes)>> \o CStr(Tail(bytes))

(***************************************************************************)
(* The four-byte chunk markers of the formats and the file extensions the  *)
(* code compares with, as the ASCII codes of their characters.             *)
(***************************************************************************)
tagBUIV == <<66, 85, 73, 86>>  \* "BUIV"
tagWRLD == <<87, 82, 76, 68>>  \* "WRLD"
tagWLIF == <<87, 76, 73, 70>>  \* "WLIF"
tagDTRS == <<68, 84, 82, 83>>  \* "DTRS"
tagLDRB == <<76, 68, 82, 66>>  \* "LDRB"
tagPlv0 == <<80, 108, 118, 48>>  \* "Plv0"
tagSpGM == <<83, 112, 71, 77>>  \* "SpGM"
tagDPOS == <<68, 80, 79, 83>>  \* "DPOS"
tagDICT == <<68, 73, 67, 84>>  \* "DICT"
tagDFNM == <<68, 70, 78, 77>>  \* "DFNM"
tagDEND == <<68, 69, 78, 68>>  \* "DEND"
tagEFNM == <<69, 70, 78, 77>>  \* "EFNM"
tagTFNM == <<84, 70, 78, 77>>  \* "TFNM"
tagFXDT == <<70, 88, 68, 84>>  \* "FXDT"

extWLD == <<46, 119, 108, 100>>  \* ".wld"
extMDL == <<46, 109, 100, 108>>  \* ".mdl"
extTEX == <<46, 116, 101, 120>>  \* ".tex"
extINI == <<46, 105, 110, 105>>  \* ".ini"
extMP3 == <<46, 109, 112, 51>>  \* ".mp3"
extOGG == <<46, 111, 103, 103>>  \* ".ogg"
extGRO == <<46, 103, 114, 111>>  \* ".gro"
extDLL == <<46, 100, 108, 108>>  \* ".dll"

(***************************************************************************)
(* The game folder the run works on: the files under the root directory,   *)
(* with their contents.  Paths are relative to the root (_strRoot is a     *)
(* prefix of every path the program opens).                                *)
(***************************************************************************)
nmWorldA == <<65, 46, 119, 108, 100>>  \* "A.wld"
nmWorldB == <<66, 46, 119, 108, 100>>  \* "B.wld"
nmWorldC == <<67, 46, 119, 108, 100>>  \* "C.wld"
nmWorldD == <<68, 46, 119, 108, 100>>  \* "D.wld"
nmWorldACase == <<97, 46, 87, 76, 68>>  \* "a.WLD"
nmGeneric == <<71, 46, 116, 120, 116>>  \* "G.txt"
nmMod == <<77, 111, 100, 115, 47, 77, 47>>  \* "Mods/M/"
nmStdGro == <<83, 46, 103, 114, 111>>  \* "S.gro"
nmBaseTex == <<84, 101, 120, 116, 117, 114, 101, 115, 47, 66, 97, 115, 101, 46, 116, 101, 120>>  \* "Textures/Base.tex"
nmFxTex == <<116, 101, 120, 116, 117, 114, 101, 115, 47, 102, 120, 46, 116, 101, 120>>  \* "textures/fx.tex"
nmWallTex == <<84, 101, 120, 116, 117, 114, 101, 115, 47, 87, 97, 108, 108, 46, 116, 101, 120>>  \* "Textures/Wall.tex"
nmTreeMdl == <<77, 111, 100, 101, 108, 115, 47, 84, 114, 101, 101, 46, 109, 100, 108>>  \* "Models/Tree.mdl"
nmTreeIni == <<77, 111, 100, 101, 108, 115, 47, 84, 114, 101, 101, 46, 105, 110, 105>>  \* "Models/Tree.ini"
nmStdTex == <<84, 101, 120, 116, 117, 114, 101, 115, 47, 83, 116, 100, 46, 116, 101, 120>>  \* "Textures/Std.tex"
nmOgg == <<77, 117, 115, 105, 99, 47, 97, 46, 111, 103, 103>>  \* "Music/a.ogg"
nmMyTex == <<84, 101, 120, 116, 117, 114, 101, 115, 47, 77, 121, 95, 84, 101, 120, 46, 116, 101, 120>>  \* "Textures/My_Tex.tex"
nmSlashTex == <<116, 101, 120, 116, 117, 114, 101, 115, 47, 115, 108, 97, 115, 104, 46, 116, 101, 120>>  \* "textures/slash.tex"
nmOpenTex == <<116, 101, 120, 116, 117, 114, 101, 115, 47, 111, 112, 101, 110, 46, 116, 101, 120>>  \* "textures/open.tex"
nmEndTex == <<116, 101, 120, 116, 117, 114, 101, 115, 47, 101, 110, 100, 46, 116, 101, 120>>  \* "textures/end.tex"
nmWorldE == <<69, 46, 119, 108, 100>>  \* "E.wld"
nmWorldF == <<70, 46, 119, 108, 100>>  \* "F.wld"
nmRevGro == <<82, 46, 103, 114, 111>>  \* "R.gro"
nmMp3 == <<77, 117, 115, 105, 99, 47, 97, 46, 109, 112, 51>>  \* "Music/a.mp3"
nmGlowTex == <<84, 101, 120, 116, 117, 114, 101, 115, 47, 71, 108, 111, 119, 46, 116, 101, 120>>  \* "Textures/Glow.tex"
nmFx2Tex == <<116, 101, 120, 116, 117, 114, 101, 115, 47, 102, 120, 50, 46, 116, 101, 120>>  \* "textures/fx2.tex"
nmBase2Tex == <<84, 101, 120, 116, 117, 114, 101, 115, 47, 66, 97, 115, 101, 95, 50, 46, 116, 101, 120>>  \* "Textures/Base_2.tex"
rawBase2Tex == <<47, 84, 101, 120, 116, 117, 114, 101, 115, 77, 80, 47, 47, 66, 97, 115, 101, 32, 50, 46, 116, 101, 120>>  \* "/TexturesMP//Base 2.tex"
nmModelsDir == <<77, 111, 100, 101, 108, 115, 47>>  \* "Models/"
rawTreeMdl == <<77, 111, 100, 101, 108, 115, 92, 84, 114, 101, 101, 46, 109, 100, 108>>  \* "Models\Tree.mdl"
rawTreeMdlUpper == <<77, 79, 68, 69, 76, 83, 92, 84, 82, 69, 69, 46, 77, 68, 76>>  \* "MODELS\TREE.MDL"
rawFxTex == <<116, 101, 120, 116, 117, 114, 101, 115, 92, 102, 120, 46, 116, 101, 120>>  \* "textures\fx.tex"
rawMp3 == <<77, 117, 115, 105, 99, 92, 97, 46, 109, 112, 51>>  \* "Music\a.mp3"
rawStdTex == <<84, 101, 120, 116, 117, 114, 101, 115, 47, 83, 116, 100, 46, 116, 101, 120>>  \* "Textures/Std.tex"
rawStdTexMP == <<84, 101, 120, 116, 117, 114, 101, 115, 77, 80, 92, 83, 116, 100, 46, 116, 101, 120>>  \* "TexturesMP\Std.tex"
rawMyTex == <<84, 101, 120, 116, 117, 114, 101, 115, 92, 77, 121, 32, 84, 101, 120, 46, 116, 101, 120>>  \* "Textures\My Tex.tex"
rawLead == <<47, 83, 111, 117, 110, 100, 115, 47, 47, 120, 46, 119, 97, 118>>  \* "/Sounds//x.wav"
rawModTex == <<77, 111, 100, 115, 92, 77, 92, 88, 46, 116, 101, 120>>  \* "Mods\M\X.tex"
rawBaseTex == <<84, 101, 120, 116, 117, 114, 101, 115, 92, 66, 97, 115, 101, 46, 116, 101, 120>>  \* "Textures\Base.tex"
rawWallTex == <<84, 101, 120, 116, 117, 114, 101, 115, 92, 87, 97, 108, 108, 46, 116, 101, 120>>  \* "Textures\Wall.tex"
sufTbnTex == <<84, 98, 110, 46, 116, 101, 120>>  \* "Tbn.tex"
sufTbn == <<46, 116, 98, 110>>  \* ".tbn"
sufVis == <<46, 118, 105, 115>>  \* ".vis"

\* A dictionary as the engine writes it; `tagEnd' closes it.
RECURSIVE DictEntries(_)
DictEntries(d) ==
  IF d = <<>> THEN <<>>
  ELSE tagDFNM \o WriteString(Head(d)) \o DictEntries(Tail(d))
MakeDict(d, tagEnd) == tagDICT \o Int32(Len(d)) \o DictEntries(d) \o tagEnd

\* The beginning of a world file: markers and the world info with its
\* optional chunks, then some other data.
WorldInfo(w) ==
  Concat(<<
    w.head, Int32(10000), w.mark, tagWLIF,
    IF "DTRS" \in w.chunks THEN tagDTRS ELSE <<>>,
    IF "LDRB" \in w.chunks THEN tagLDRB \o WriteString(<<108, 98>>) ELSE <<>>,
    IF "Plv0" \in w.chunks THEN tagPlv0 \o Int32(1) \o Int32(2) \o Int32(3) ELSE <<>>,
    WriteString(<<78, 97, 109, 101>>), Int32(0),
    IF "SpGM" \in w.chunks THEN tagSpGM ELSE <<>>,
    WriteString(<<68, 101, 115, 99>>),
    <<120, 68, 80, 121>> >>)

\* Data between a DPOS marker and the dictionary it points to
brushData == <<98, 114, 117, 115, 104>>  \* "brush"

\* The rest of a world file: two dictionaries, each at the offset stored
\* after a DPOS marker.
WorldDictionaries(w, ctBefore, dict1) ==
  Concat(<<tagDPOS, Int32(ctBefore + 8 + Len(brushData)), brushData, dict1,
           tagDPOS, Int32(ctBefore + 8 + Len(brushData) + Len(dict1) + 8 + Len(brushData)),
           brushData, MakeDict(w.dict2, tagDEND)>>)

MakeWorld(w) ==
  WorldInfo(w) \o WorldDictionaries(w, Len(WorldInfo(w)), MakeDict(w.dict1, w.end1))

GoodWorld(chunks, dict1, dict2) ==
  MakeWorld([head |-> tagBUIV, mark |-> tagWRLD, chunks |-> chunks,
             dict1 |-> dict1, dict2 |-> dict2, end1 |-> tagDEND])

\* A texture file: 36 bytes of header, the effect marker or other data, data
\* up to offset 57, and the tail.
MakeTex(tag, tail) ==
  [i \in 1..36 |-> 1] \o tag \o [i \in 1..17 |-> 2] \o tail

PlainTex == MakeTex(<<70, 82, 77, 83>>, <<100, 97, 116, 97>>)

DataWorldA == GoodWorld({}, <<rawTreeMdl, <<>>>>, <<rawFxTex, rawTreeMdlUpper, rawMp3>>)
DataWorldB == GoodWorld({"DTRS", "LDRB", "Plv0", "SpGM"},
                        <<rawStdTexMP, rawMyTex>>, <<rawLead, rawStdTex, rawTreeMdl>>)
\* A file that does not begin with BUIV
DataWorldC == MakeWorld([head |-> <<88, 85, 73, 86>>, mark |-> tagWRLD, chunks |-> {"LDRB"},
                         dict1 |-> <<rawTreeMdl>>, dict2 |-> <<>>, end1 |-> tagDEND])
\* A file with another marker where WRLD is expected
DataWorldD == MakeWorld([head |-> tagBUIV, mark |-> tagWLIF, chunks |-> {"LDRB"},
                         dict1 |-> <<rawTreeMdl>>, dict2 |-> <<>>, end1 |-> tagDEND])
DataWorldModA == GoodWorld({}, <<rawModTex, rawTreeMdl>>, <<rawStdTex>>)
\* A file of no known format with the three kinds of filename in it
DataGeneric ==
  Concat(<<<<120, 120>>, tagDFNM, WriteString(rawWallTex), <<121>>,
           tagEFNM, rawTreeMdl, <<chNull>>,
           tagTFNM, <<chSpace>>, nmStdTex, <<chNewline>>, <<122, 122>>>>)
\* An effect texture: the path of its base texture is at the end
DataFxTex == MakeTex(tagFXDT, <<chNull>> \o rawBaseTex)

\* An effect texture with more than one null character after its data
DataFx2Tex == MakeTex(tagFXDT, <<120, 120, 0, 111, 108, 100, 0>> \o rawBase2Tex)

\* An effect texture with no null character after its data
DataOpenTex == MakeTex(tagFXDT, nmBaseTex)

\* An effect texture whose last byte is a null character
DataEndTex == MakeTex(tagFXDT, nmBaseTex \o <<chNull>>)

\* An effect texture whose base texture is named by a slash
DataSlashTex == MakeTex(tagFXDT, <<chNull, chSlash>>)

\* The files on disk: <<path, contents>>
DiskFiles == {
  <<nmWorldA, DataWorldA>>,
  <<nmWorldB, DataWorldB>>,
  <<nmWorldC, DataWorldC>>,
  <<nmWorldD, DataWorldD>>,
  <<nmMod \o nmWorldA, DataWorldModA>>,
  <<nmGeneric, DataGeneric>>,
  <<nmMod \o nmGeneric, DataGeneric>>,
  <<RemoveExt(nmWorldA) \o sufTbnTex, PlainTex>>,
  <<RemoveExt(nmWorldA) \o sufVis, <<118>>>>,
  <<RemoveExt(nmWorldB) \o sufTbn, PlainTex>>,
  <<RemoveExt(nmWorldC) \o sufTbnTex, PlainTex>>,
  <<RemoveExt(nmWorldD) \o sufTbn, PlainTex>>,
  <<RemoveExt(nmWorldD) \o sufVis, <<118>>>>,
  <<nmMod \o RemoveExt(nmWorldA) \o sufVis, <<118>>>>,
  <<nmFxTex, DataFxTex>>,
  <<nmBaseTex, PlainTex>>,
  <<nmWallTex, PlainTex>>,
  <<nmStdTex, PlainTex>>,
  <<nmTreeMdl, <<109>>>>,
  <<nmGlowTex, DataFxTex>>,
  <<nmFx2Tex, DataFx2Tex>>,
  <<nmSlashTex, DataSlashTex>>,
  <<nmOpenTex, DataOpenTex>>,
  <<nmEndTex, DataEndTex>>,
  <<nmStdGro, <<80, 75>>>>,
  <<RemoveExt(nmWorldE) \o sufTbnTex, PlainTex>>,
  <<RemoveExt(nmWorldE) \o sufTbn, PlainTex>>,
  <<RemoveExt(nmWorldE) \o sufVis, <<118>>>>,
  <<nmRevGro, <<80, 75>>>> }

DiskPaths == {f[1] : f \in DiskFiles}

\* FileExists / CFileDevice::Open for reading
FileExists(path) == path \in DiskPaths
\* The bytes of an open file
FileData(path) == (CHOOSE f \in DiskFiles : f[1] = path)[2]

\* The entries of a GRO archive on disk: <<full name, is a directory>>
GroEntries(path) ==
  IF path = nmStdGro
  THEN <<<<nmStdTex, FALSE>>, <<nmModelsDir, TRUE>>, <<nmTreeIni, FALSE>>,
         <<nmOgg, FALSE>>, <<nmMyTex, FALSE>>>>
  ELSE IF path = nmRevGro
  THEN <<<<nmMp3, FALSE>>, <<nmTreeMdl, FALSE>>, <<nmBase2Tex, FALSE>>,
         <<RemoveExt(nmWorldE) \o sufTbnTex, FALSE>>, <<RemoveExt(nmWorldE) \o sufVis, FALSE>>>>
  ELSE <<<<nmWallTex, FALSE>>>>

(***************************************************************************)
(* The globals the scanning functions work on, as one record:              *)
(*   files   _aFilesToPack, each entry with the history field `by' that    *)
(*           names the code that scheduled it                              *)
(*   ct      _ctFiles          count   _bCountFiles                        *)
(*   flags   _iFlags           depends _aStdDepends                        *)
(* and two histories of the step that is taken:                            *)
(*   calls   the names TryToAddFile was called with, in order              *)
(*   opens   the paths AddExtrasWithTEX gave to CFileDevice to open        *)
(***************************************************************************)
Globals == [files |-> _aFilesToPack, ct |-> _ctFiles, count |-> _bCountFiles,
            flags |-> _iFlags, depends |-> _aStdDepends,
            calls |-> <<>>, opens |-> <<>>]

RECURSIVE HashRange(_, _, _, _)
\* The hash `h' with the characters lo..hi taken in, in their order: the
\* hash of the first half is worked out, then the second half goes on from it
HashRange(str, lo, hi, h) ==
  IF lo > hi THEN h
  ELSE IF lo = hi THEN (h * 31 + str[lo]) % 65521
  ELSE CHOOSE hAll \in {HashRange(str, (lo + hi) \div 2 + 1, hi, hHalf) :
                          hHalf \in {HashRange(str, lo, (lo + hi) \div 2, h)}} : TRUE

HashFrom(str, h) == HashRange(str, 1, Len(str), h)

\* std::hash<CString>: a hash of the characters (implementation defined)
Hash(str) == HashFrom(str, 7)

\* InDepends (Main.cpp): is the hash of the name among the standard dependencies
InDepends(g, strFilename) == Hash(strFilename) \in g.depends

\* InFiles with the comparison case sensitive
InFilesExact(g, strFilename) ==
  \E i \in 1..Len(g.files) : g.files[i].strFile = strFilename

\* InFiles (Main.cpp): case insensitive search of the list
InFiles(g, strFilename) ==
  \E i \in 1..Len(g.files) : AsLower(g.files[i].strFile) = AsLower(strFilename)

\* The entry AddFile makes: numbered from 1 when files are counted, else 0
ListedFile(g, strFilename, by) ==
  [strFile |-> strFilename, iNumber |-> IF g.count THEN g.ct + 1 ELSE 0, by |-> by]

\* AddFile with the new entry put in front of the list
AddFileInFront(g, strFilename, by) ==
  IF InFiles(g, strFilename) THEN [g |-> g, ret |-> FALSE]
  ELSE [g |-> [g EXCEPT !.ct = IF g.count THEN @ + 1 ELSE @,
                        !.files = <<ListedFile(g, strFilename, by)>> \o @],
        ret |-> TRUE]

\* AddFile (Main.cpp): the globals after the call and the value returned
AddFile(g, strFilename, by) ==
  IF InFiles(g, strFilename) THEN [g |-> g, ret |-> FALSE]
  ELSE [g |-> [g EXCEPT !.ct = IF g.count THEN @ + 1 ELSE @,
                        !.files = Append(@, ListedFile(g, strFilename, by))],
        ret |-> TRUE]

\* How many characters of a lowercase name come before the 'MP' that
\* ReplaceRevDirs removes, 0 if the name begins with none of the directories
RevDirLength(strCheck) ==
  IF StartsWith(strCheck, <<109, 111, 100, 101, 108, 115, 109, 112>>) \/ StartsWith(strCheck, <<115, 111, 117, 110, 100, 115, 109, 112>>) THEN 6
  ELSE IF StartsWith(strCheck, <<109, 117, 115, 105, 99, 109, 112>>) THEN 5
  ELSE IF StartsWith(strCheck, <<100, 97, 116, 97, 109, 112>>) THEN 4
  ELSE IF StartsWith(strCheck, <<116, 101, 120, 116, 117, 114, 101, 115, 109, 112>>) THEN 8
  ELSE IF StartsWith(strCheck, <<97, 110, 105, 109, 97, 116, 105, 111, 110, 115, 109, 112>>) THEN 10
  ELSE 0

\* ReplaceRevDirs (Main.cpp): 'MP' removed from the name of some directories
ReplaceRevDirs(strFilename) ==
  IF RevDirLength(AsLower(strFilename)) = 0 THEN strFilename
  ELSE Erase(strFilename, RevDirLength(AsLower(strFilename)), 2)

\* AddExtrasWithMDL that adds the config whatever the flags are
AddExtrasWithMDLAlways(g, strFilename) ==
  AddFile(g, RemoveExt(strFilename) \o extINI, "ini").g

\* AddExtrasWithMDL (DictionaryReader.cpp)
AddExtrasWithMDL(g, strFilename) ==
  IF PackINI(g.flags) THEN AddFile(g, RemoveExt(strFilename) \o extINI, "ini").g ELSE g

\* One pass of the loop of AddExtrasWithTEX with a null character not skipped
BackScanStepKeepingNull(data, b) ==
  IF PeekBytes(data, b.pos, 1) = <<chNull>> THEN [b EXCEPT !.done = TRUE]
  ELSE [b EXCEPT !.pos = @ - 1, !.ctChars = @ + 1]

\* One pass of the loop of AddExtrasWithTEX that goes backwards until the null
\* character: `done' after the break
BackScanStep(data, b) ==
  IF PeekBytes(data, b.pos, 1) = <<chNull>> THEN [b EXCEPT !.pos = @ + 1, !.done = TRUE]
  ELSE [b EXCEPT !.pos = @ - 1, !.ctChars = @ + 1]

\* Is the loop of AddExtrasWithTEX over
BackScanOver(b) == b.done \/ ~(b.pos > 56)

\* strmTex.Seek(strmTex.Device()->Size() - 1); s32 ctChars = 0
BackScanStart(data) == [pos |-> Len(data) - 1, ctChars |-> 0, done |-> FALSE]

RECURSIVE BackScan(_, _)
\* The loop of AddExtrasWithTEX: the position and the count of characters it
\* ends with
BackScan(data, b) ==
  IF BackScanOver(b) THEN b ELSE BackScan(data, BackScanStep(data, b))

\* AddExtrasWithTEX, the Revolution checks: may the base texture be added
BaseTextureIsNew(g, strRevTex) ==
  IsRev(g.flags) =>
    ~InDepends(g, strRevTex) /\ ~InDepends(g, Replace(strRevTex, chSpace, chUnderscore))

\* AddExtrasWithTEX, from the check of the lowercase name on
AddBaseTexture(g, strBaseTex, strCheckTex) ==
  IF InDepends(g, strCheckTex) THEN g
  ELSE IF BaseTextureIsNew(g, ReplaceRevDirs(strCheckTex))
  THEN AddFile(g, strBaseTex, "basetex").g
  ELSE g

\* AddExtrasWithTEX, after FixFilename(strBaseTex)
AddFixedBaseTexture(g, fixed) ==
  AddBaseTexture([g EXCEPT !.flags = fixed.flags], fixed.str, AsLower(fixed.str))

\* AddExtrasWithTEX, after the backward scan
AddBaseTextureAt(g, data, b) ==
  IF b.ctChars = 0 THEN g
  ELSE Call2(AddFixedBaseTexture, g,
             FixFilename(CStr(PeekBytes(data, b.pos, b.ctChars)), g.flags))

\* AddExtrasWithTEX, on the bytes of the texture
AddExtrasFromTexture(g, data) ==
  IF PeekBytes(data, 36, 4) # tagFXDT THEN g
  ELSE Call3(AddBaseTextureAt, g, data, BackScan(data, BackScanStart(data)))

\* AddExtrasWithTEX: the file it opens, under the mod if it is there
TexturePath(strRelativeTextureFile) ==
  IF _strMod # <<>> /\ ~FileExists(_strMod \o strRelativeTextureFile)
  THEN strRelativeTextureFile
  ELSE _strMod \o strRelativeTextureFile

\* AddExtrasWithTEX, from the opening of the file on
AddExtrasWithOpenTEX(g, strFilename) ==
  IF ~FileExists(strFilename) THEN g ELSE AddExtrasFromTexture(g, FileData(strFilename))

\* AddExtrasWithTEX (DictionaryReader.cpp)
AddExtrasWithTEX(g, strRelativeTextureFile) ==
  AddExtrasWithOpenTEX([g EXCEPT !.opens = Append(@, TexturePath(strRelativeTextureFile))],
                       TexturePath(strRelativeTextureFile))

\* TryToAddFile, after AddFile(strFilename)
AddExtras(added, strFilename, strCheckFile, strExt) ==
  IF ~added.ret THEN added.g
  ELSE IF strExt = extMDL THEN AddExtrasWithMDL(added.g, strFilename)
  ELSE IF strExt = extTEX THEN AddExtrasWithTEX(added.g, strCheckFile)
  ELSE added.g

\* TryToAddFile, after AddFile(strFilename), by the extension of the key
AddExtrasOf(added, strFilename, strCheckFile) ==
  AddExtras(added, strFilename, strCheckFile, GetFileExt(strCheckFile))

\* TryToAddFile, from AddFile(strFilename) on
TryToAddNew(g, strFilename, strCheckFile) ==
  Call3(AddExtrasOf, AddFile(g, strFilename, "pipeline"), strFilename, strCheckFile)

\* TryToAddFile, the Revolution checks with the key after ReplaceRevDirs
TryToAddRev(g, strFilename, strCheckFile) ==
  IF InDepends(g, strCheckFile) THEN g
  ELSE IF InDepends(g, Replace(strCheckFile, chSpace, chUnderscore)) THEN g
  ELSE TryToAddNew(g, strFilename, Replace(strCheckFile, chSpace, chUnderscore))

\* TryToAddFile, after the check for OGG
TryToAddUnlessRev(g, strFilename, strCheckFile, bSkip) ==
  IF bSkip THEN g
  ELSE IF IsRev(g.flags) THEN TryToAddRev(g, strFilename, ReplaceRevDirs(strCheckFile))
  ELSE TryToAddNew(g, strFilename, strCheckFile)

\* TryToAddFile with the check for OGG made whatever the flags are
TryToAddUnlessOggAlways(g, strFilename, strCheckFile) ==
  IF GetFileExt(strCheckFile) = extMP3
  THEN TryToAddUnlessRev(g, strFilename, RemoveExt(strCheckFile) \o extOGG,
                         InDepends(g, RemoveExt(strCheckFile) \o extOGG))
  ELSE TryToAddUnlessRev(g, strFilename, strCheckFile, FALSE)

\* TryToAddFile, the check for OGG if no MP3
TryToAddUnlessOgg(g, strFilename, strCheckFile) ==
  IF PackOGG(g.flags) /\ GetFileExt(strCheckFile) = extMP3
  THEN TryToAddUnlessRev(g, strFilename, RemoveExt(strCheckFile) \o extOGG,
                         InDepends(g, RemoveExt(strCheckFile) \o extOGG))
  ELSE TryToAddUnlessRev(g, strFilename, strCheckFile, FALSE)

\* TryToAddFile from the first check on, without the checks
TryToAddUnchecked(g, strFilename, strCheckFile) ==
  TryToAddNew(g, strFilename, strCheckFile)

\* TryToAddFile from "Skip if already in there" on
TryToAddChecked(g, strFilename, strCheckFile) ==
  IF InDepends(g, strCheckFile) THEN g
  ELSE TryToAddUnlessOgg(g, strFilename, strCheckFile)

\* TryToAddFile, "Remove mod directory": how many characters are erased
ModPrefixLength(g, strCheckFile) ==
  IF EraseMod(g.flags) /\ _strMod # <<>> /\ StartsWith(strCheckFile, AsLower(_strMod))
  THEN Len(AsLower(_strMod))
  ELSE 0

\* TryToAddFile with the key of every call recorded among the dependencies
TryToAddFileRecording(g, strFilename) ==
  TryToAddChecked([g EXCEPT !.depends = @ \cup {Hash(AsLower(strFilename))}],
                  strFilename, strFilename)

\* TryToAddFile (DictionaryReader.cpp)
TryToAddFile(g, strFilename) ==
  Call3(TryToAddChecked, [g EXCEPT !.calls = Append(@, strFilename)],
    Erase(strFilename, 0, ModPrefixLength(g, AsLower(strFilename))),
    Erase(AsLower(strFilename), 0, ModPrefixLength(g, AsLower(strFilename))))

(***************************************************************************)
(* Scanning.  A scan works on [g, pos, err]: the globals, the position of  *)
(* the stream and the message of the exception thrown ("" while none is).  *)
(* Once err is set the rest of the scan is skipped, as the exception       *)
(* leaves the function.                                                    *)
(***************************************************************************)
errOpen == "Cannot open the file!"
errWorld == "Expected a world file from Serious Sam Classics!"
errExpect == "Unexpected chunk"

\* CDataStream::Expect: read four bytes, throw unless they are the marker
Expect(data, s, tag) ==
  IF s.err # "" THEN s
  ELSE IF PeekBytes(data, s.pos, 4) = tag THEN [s EXCEPT !.pos = @ + 4]
  ELSE [s EXCEPT !.err = errExpect]

\* Skip a chunk marker if it is the next one, marking SSR if asked to
SkipChunk(data, s, tag, ctSkip, bRev) ==
  IF s.err # "" \/ PeekBytes(data, s.pos, 4) # tag THEN s
  ELSE [s EXCEPT !.pos = @ + ctSkip,
                 !.g.flags = IF bRev THEN SetFlag(@, SCAN_SSR) ELSE @]

\* strm >> strDummy
SkipString(data, s) ==
  IF s.err # "" THEN s ELSE [s EXCEPT !.pos = ReadString(data, @).pos]

\* strm.Skip(ct)
SkipBytes(s, ct) == IF s.err # "" THEN s ELSE [s EXCEPT !.pos = @ + ct]

\* FixFilename(strFilename); TryToAddFile(strFilename), after the first
AddFixedFilename(g, fixed) == TryToAddFile([g EXCEPT !.flags = fixed.flags], fixed.str)

\* FixFilename(strFilename); TryToAddFile(strFilename)
AddFoundFilename(g, strFilename) ==
  Call2(AddFixedFilename, g, FixFilename(strFilename, g.flags))

\* One pass of the loop of ScanWorldDictionary with empty filenames not skipped
DictionaryFilenameKeepingEmpty(s, rd) ==
  [s EXCEPT !.pos = rd.pos, !.g = AddFoundFilename(@, rd.str)]

\* One pass of the loop of ScanWorldDictionary, after the filename is read
DictionaryFilename(s, rd) ==
  IF rd.str = <<>> THEN [s EXCEPT !.pos = rd.pos]
  ELSE [s EXCEPT !.pos = rd.pos, !.g = AddFoundFilename(@, rd.str)]

\* One pass of the loop of ScanWorldDictionary, after Expect("DFNM")
DictionaryEntry(data, s) ==
  IF s.err # "" THEN s ELSE Call2(DictionaryFilename, s, ReadString(data, s.pos))

\* Is the loop of ScanWorldDictionary over: by its count or by an exception
DictionaryOver(s, iFile, ctFiles) == s.err # "" \/ ~(iFile < ctFiles)

\* One pass of the loop of ScanWorldDictionary
DictionaryStep(data, s) == DictionaryEntry(data, Expect(data, s, tagDFNM))

RECURSIVE DictionaryLoop(_, _, _, _)
\* The loop of ScanWorldDictionary over the filenames
DictionaryLoop(data, s, iFile, ctFiles) ==
  IF DictionaryOver(s, iFile, ctFiles) THEN s
  ELSE DictionaryLoop(data, DictionaryStep(data, s), iFile + 1, ctFiles)

\* ScanWorldDictionary, from strm >> ctFiles to the end of the loop
DictionaryFiles(data, s, iJunk) ==
  IF s.err # "" THEN s
  ELSE DictionaryLoop(data, [s EXCEPT !.pos = Min(@ + 4, Max(Len(data), @))],
                      0, ReadS32(data, s.pos, iJunk))

\* ScanWorldDictionary (DictionaryReader.cpp)
ScanWorldDictionary(data, s, iJunk) ==
  Expect(data, DictionaryFiles(data, Expect(data, s, tagDICT), iJunk), tagDEND)

\* VerifyWorldFile (Main.cpp)
VerifyWorldFile(data, s) ==
  IF PeekBytes(data, s.pos, 4) # tagBUIV THEN [s EXCEPT !.err = errWorld]
  ELSE IF PeekBytes(data, s.pos + 8, 4) # tagWRLD THEN [s EXCEPT !.err = errWorld]
  ELSE [s EXCEPT !.pos = @ + 12]

\* ScanWorld, "Skip SSR leaderboards chunk"
SkipLeaderboards(data, s) ==
  IF s.err # "" \/ PeekBytes(data, s.pos, 4) # tagLDRB THEN s
  ELSE SkipString(data, [s EXCEPT !.pos = @ + 4, !.g.flags = SetFlag(@, SCAN_SSR)])

\* ScanWorld, the world info up to the world name
SkipWorldHead(data, s) ==
  SkipChunk(data,
    SkipLeaderboards(data, SkipChunk(data, Expect(data, s, tagWLIF), tagDTRS, 4, FALSE)),
    tagPlv0, 16, TRUE)

\* ScanWorld, the world info that is parsed before the dictionaries
SkipWorldInfo(data, s) ==
  SkipString(data,
    SkipChunk(data, SkipBytes(SkipString(data, SkipWorldHead(data, s)), 4),
              tagSpGM, 4, TRUE))

\* ScanWorld, "Add VIS file"
AddVis(g, strVis) ==
  IF FileExists(_strMod \o strVis) THEN AddFile(g, strVis, "vis").g ELSE g

\* ScanWorld, "Add thumbnail texture", the thumbnail being chosen
AddThumbnail(g, strExtra) ==
  IF FileExists(_strMod \o strExtra) THEN AddFile(g, strExtra, "thumbnail").g ELSE g

\* ScanWorld with the regular thumbnail not tried
ThumbnailNameOnlyTex(strNoExt) == strNoExt \o sufTbnTex

\* ScanWorld, "Try regular thumbnail"
ThumbnailName(strNoExt) ==
  IF ~FileExists(_strMod \o strNoExt \o sufTbnTex)
  THEN strNoExt \o sufTbn
  ELSE strNoExt \o sufTbnTex

\* ScanWorld: the thumbnail and the VIS file it adds
AddWorldExtras(g, strWorld) ==
  AddVis(AddThumbnail(g, ThumbnailName(RemoveExt(strWorld))),
         RemoveExt(strWorld) \o sufVis)

\* One pass of the loop of ScanWorld that looks for DPOS: `done' after the break
FindStep(data, f) ==
  IF PeekBytes(data, f.pos, 4) = tagDPOS THEN [pos |-> f.pos + 4, done |-> TRUE]
  ELSE [f EXCEPT !.pos = @ + 1]

\* Is the loop of ScanWorld that looks for DPOS over
FindOver(data, f) == f.done \/ AtEnd(data, f.pos)

RECURSIVE FindLoop(_, _)
FindLoop(data, f) == IF FindOver(data, f) THEN f ELSE FindLoop(data, FindStep(data, f))

\* The loop of ScanWorld that moves forward to after the first DPOS, or to the end
FindDictionaryPos(data, pos) == FindLoop(data, [pos |-> pos, done |-> FALSE]).pos

\* "Go to the dictionary": read the offset and seek to it
SeekDictionary(data, s, iJunk) ==
  IF s.err # "" THEN s ELSE [s EXCEPT !.pos = ReadS32(data, @, iJunk)]

\* ScanWorld, from the extra files to the search for the dictionary
FindDictionary(data, s, strWorld) ==
  IF s.err # "" THEN s
  ELSE [s EXCEPT !.g = AddWorldExtras(@, strWorld), !.pos = FindDictionaryPos(data, @)]

\* The two dictionaries with the marker between them skipped, not expected
ScanDictionariesUnchecked(data, s, iJunk) ==
  ScanWorldDictionary(data,
    SeekDictionary(data,
      SkipBytes(ScanWorldDictionary(data, SeekDictionary(data, s, iJunk), iJunk), 4),
      iJunk),
    iJunk)

\* ScanWorld, the two dictionaries
ScanDictionaries(data, s, iJunk) ==
  ScanWorldDictionary(data,
    SeekDictionary(data,
      Expect(data, ScanWorldDictionary(data, SeekDictionary(data, s, iJunk), iJunk), tagDPOS),
      iJunk),
    iJunk)

\* ScanWorld on the open file with the extra files added before the file is verified
ScanOpenWorldExtrasFirst(data, g, strWorld, iJunk) ==
  ScanDictionaries(data,
    FindDictionary(data,
      SkipWorldInfo(data,
        VerifyWorldFile(data, [g |-> AddWorldExtras(g, strWorld), pos |-> 0, err |-> ""])),
      strWorld),
    iJunk)

\* ScanWorld on the open file
ScanOpenWorld(data, g, strWorld, iJunk) ==
  ScanDictionaries(data,
    FindDictionary(data,
      SkipWorldInfo(data, VerifyWorldFile(data, [g |-> g, pos |-> 0, err |-> ""])),
      strWorld),
    iJunk)

\* ScanWorld (DictionaryReader.cpp)
ScanWorld(g, strWorld, iJunk) ==
  IF ~FileExists(_strMod \o strWorld) THEN [g |-> g, pos |-> 0, err |-> errOpen]
  ELSE ScanOpenWorld(FileData(_strMod \o strWorld), g, strWorld, iJunk)

\* Does a loop of ScanAnyFile that collects a filename break with ct
\* characters collected from `pos' on
RunBreaks(data, pos, stops, ctMax, ct) ==
  AtEnd(data, pos + ct) \/ data[pos + ct + 1] \in stops \/ ct >= ctMax

\* How many characters such a loop collects: it goes on while it does not break
RunLength(data, pos, stops, ctMax) ==
  CHOOSE ct \in 0..Min(ctMax, Max(0, Len(data) - pos)) :
    /\ RunBreaks(data, pos, stops, ctMax, ct)
    /\ \A ctLess \in 0..(ct - 1) : ~RunBreaks(data, pos, stops, ctMax, ctLess)

\* The loops of ScanAnyFile that collect a filename character by character:
\* up to a character of `stops', the end of the stream or `ctMax' characters
ReadRun(data, pos, stops, ctMax, str) ==
  [str |-> str \o SubSeq(data, pos + 1, pos + RunLength(data, pos, stops, ctMax)),
   pos |-> pos + RunLength(data, pos, stops, ctMax)]

\* ScanAnyFile, "Filename inside a data file": iSize stays 0 unless four
\* bytes are there to peek
ReadDataFilename(data, pos, size) ==
  IF Len(size) < 4 \/ (size[2] = 0 /\ size[3] = 0 /\ size[4] = 0 /\ size[1] < 254)
  THEN ReadString(data, pos)
  ELSE [str |-> <<>>, pos |-> pos]

\* ReadAnyFilename with the space after TFNM not skipped
ReadAnyFilenameWithSpace(data, pos, chunk) ==
  IF chunk = tagDFNM THEN ReadDataFilename(data, pos + 4, PeekBytes(data, pos + 4, 4))
  ELSE IF chunk = tagEFNM THEN ReadRun(data, pos + 4, {chNull}, Len(data), <<>>)
  ELSE IF chunk = tagTFNM
  THEN ReadRun(data, pos + 4, {chNewline, chReturn, chNull}, 254, <<>>)
  ELSE [str |-> <<>>, pos |-> pos]

\* The filename that one pass of the loop of ScanAnyFile reads after the
\* chunk at the position, and the position after it
ReadAnyFilename(data, pos, chunk) ==
  IF chunk = tagDFNM THEN ReadDataFilename(data, pos + 4, PeekBytes(data, pos + 4, 4))
  ELSE IF chunk = tagEFNM THEN ReadRun(data, pos + 4, {chNull}, Len(data), <<>>)
  ELSE IF chunk = tagTFNM
  THEN ReadRun(data, pos + 5, {chNewline, chReturn, chNull}, 254, <<>>)
  ELSE [str |-> <<>>, pos |-> pos]

\* One pass of the main loop of ScanAnyFile that does not move forward when
\* it has read no filename
ScanAnyFilenameStaying(s, rd) ==
  IF rd.str # <<>>
  THEN [s EXCEPT !.pos = rd.pos, !.g = AddFoundFilename(@, rd.str)]
  ELSE [s EXCEPT !.pos = rd.pos]

\* One pass of the main loop of ScanAnyFile, after the filename is read
ScanAnyFilename(s, rd) ==
  IF rd.str # <<>>
  THEN [s EXCEPT !.pos = rd.pos, !.g = AddFoundFilename(@, rd.str)]
  ELSE [s EXCEPT !.pos = rd.pos + 1]

\* One pass of the main loop of ScanAnyFile
ScanAnyStep(data, s) ==
  Call2(ScanAnyFilename, s, ReadAnyFilename(data, s.pos, PeekBytes(data, s.pos, 4)))

\* Is the main loop of ScanAnyFile over: at the end of the stream, or with
\* fewer than four bytes left to peek
ScanAnyOver(data, s) == AtEnd(data, s.pos) \/ Len(PeekBytes(data, s.pos, 4)) # 4

RECURSIVE ScanAnyLoop(_, _)
\* The main loop of ScanAnyFile
ScanAnyLoop(data, s) ==
  IF ScanAnyOver(data, s) THEN s ELSE ScanAnyLoop(data, ScanAnyStep(data, s))

\* ScanAnyFile (DictionaryReader.cpp), for a file that is not a library
ScanAnyFile(g, strFile) ==
  IF ~FileExists(_strMod \o strFile) THEN [g |-> g, pos |-> 0, err |-> errOpen]
  ELSE ScanAnyLoop(FileData(_strMod \o strFile), [g |-> g, pos |-> 0, err |-> ""])

(***************************************************************************)
(* Standard dependencies (CommandLine.cpp).                                *)
(***************************************************************************)
GameTypes == {"GAME_NONE", "GAME_TFE", "GAME_TSE", "GAME_REV"}

gro100 == <<49, 95, 48, 48, 46, 103, 114, 111>>  \* "1_00.gro"
groSE100 == <<83, 69, 49, 95, 48, 48, 46, 103, 114, 111>>  \* "SE1_00.gro"
groAll01 == <<65, 108, 108, 95, 48, 49, 46, 103, 114, 111>>  \* "All_01.gro"
groAll02 == <<65, 108, 108, 95, 48, 50, 46, 103, 114, 111>>  \* "All_02.gro"

\* The stock packages that are in the game folder when DetectGame finds the game
StockGros(eGame) ==
  CASE eGame = "GAME_TSE" -> {groSE100}
    [] eGame = "GAME_REV" -> {groAll01, groAll02}
    [] eGame = "GAME_TFE" -> {gro100}
    [] OTHER -> {}

\* The packages IgnoreGame ignores for a game
GameGroList(eGame) ==
  CASE eGame = "GAME_TSE" ->
         <<groSE100, <<83, 69, 49, 95, 49, 48, 46, 103, 114, 111>>, <<83, 69, 49, 95, 48, 48, 95, 69, 120, 116, 114, 97, 46, 103, 114, 111>>, <<83, 69, 49, 95, 48, 48, 95, 69, 120, 116, 114, 97, 84, 111, 111, 108, 115, 46, 103, 114, 111>>,
           <<83, 69, 49, 95, 48, 48, 95, 77, 117, 115, 105, 99, 46, 103, 114, 111>>, <<49, 95, 48, 52, 95, 112, 97, 116, 99, 104, 46, 103, 114, 111>>, <<49, 95, 48, 55, 95, 116, 111, 111, 108, 115, 46, 103, 114, 111>>>>
    [] eGame = "GAME_REV" -> <<groAll01, groAll02>>
    [] eGame = "GAME_TFE" ->
         <<gro100, <<49, 95, 48, 48, 95, 97, 46, 103, 114, 111>>, <<49, 95, 48, 48, 99, 46, 103, 114, 111>>, <<49, 95, 48, 48, 99, 95, 115, 99, 114, 105, 112, 116, 115, 46, 103, 114, 111>>,
           <<49, 95, 48, 48, 95, 69, 120, 116, 114, 97, 84, 111, 111, 108, 115, 46, 103, 114, 111>>, <<49, 95, 48, 48, 95, 109, 117, 115, 105, 99, 46, 103, 114, 111>>, <<49, 95, 48, 52, 95, 112, 97, 116, 99, 104, 46, 103, 114, 111>>>>
    [] OTHER -> <<>>

RECURSIVE IgnoreEntries(_, _)
\* The loop of IgnoreGRO over the entries of the archive
IgnoreEntries(depends, entries) ==
  IF entries = <<>> THEN depends
  ELSE IF Head(entries)[2] THEN IgnoreEntries(depends, Tail(entries))
  ELSE IgnoreEntries(depends \cup {Hash(AsLower(Head(entries)[1]))}, Tail(entries))

\* Is the package on disk
GroExists(path, eGame) == FileExists(path) \/ path \in StockGros(eGame)

\* IgnoreGRO: the package under the mod if it is there, else under the root
GroPath(strGRO, eGame, strMod) ==
  IF GroExists(strMod \o strGRO, eGame) THEN strMod \o strGRO ELSE strGRO

\* IgnoreGRO, from the opening of the archive on
IgnoreOpenGRO(depends, strFullPath, eGame) ==
  IF ~GroExists(strFullPath, eGame) THEN depends
  ELSE IgnoreEntries(depends, GroEntries(strFullPath))

\* IgnoreGRO (CommandLine.cpp): the standard dependencies after the call
IgnoreGRO(depends, strGRO, eGame, strMod) ==
  IgnoreOpenGRO(depends, GroPath(strGRO, eGame, strMod), eGame)

RECURSIVE IgnoreGROs(_, _, _, _)
\* IgnoreGRO on each package of a list
IgnoreGROs(depends, list, eGame, strMod) ==
  IF list = <<>> THEN depends
  ELSE IgnoreGROs(IgnoreGRO(depends, Head(list), eGame, strMod), Tail(list), eGame, strMod)

\* IgnoreGame (CommandLine.cpp): the flags and the standard dependencies after the call
IgnoreGame(iFlags, depends, eGame, bSetFlagsFromGame, strMod) ==
  [flags |-> IF bSetFlagsFromGame /\ eGame = "GAME_REV" THEN SetFlag(iFlags, SCAN_SSR)
             ELSE IF bSetFlagsFromGame /\ eGame = "GAME_TFE" THEN SetFlag(iFlags, SCAN_OGG)
             ELSE iFlags,
   depends |-> IgnoreGROs(depends, GameGroList(eGame), eGame, strMod)]

\* One pass of the loop of ParseArguments over the dependencies given with -d
AddDependency(depends, strDepend, eGame, strMod) ==
  IF GetFileExt(AsLower(strDepend)) = extGRO THEN IgnoreGRO(depends, strDepend, eGame, strMod)
  ELSE IF ~FileExists(strMod \o strDepend) /\ ~FileExists(strDepend) THEN depends
  ELSE depends \cup {Hash(AsLower(strDepend))}

RECURSIVE GoThroughDependencies(_, _, _, _)
\* The loop of ParseArguments over the dependencies given with -d
GoThroughDependencies(depends, list, eGame, strMod) ==
  IF list = <<>> THEN depends
  ELSE GoThroughDependencies(AddDependency(depends, Head(list), eGame, strMod),
                             Tail(list), eGame, strMod)

(***************************************************************************)
(* Packing (main, Main.cpp).                                               *)
(***************************************************************************)
\* CheckFile (Main.cpp): 0 - doesn't exist; 1 - exists under root; 2 - exists under mod
CheckFile(strFile, iFlags) ==
  IF _strMod # <<>> /\ FileExists(_strMod \o strFile) THEN 2
  ELSE IF FileExists(strFile) THEN 1
  ELSE IF IsRev(iFlags) /\ FileExists(ReplaceRevDirs(strFile)) THEN 1
  ELSE 0

\* ZipArchive::CreateEntry gives no entry for the empty name and for a name
\* the archive already has
NoEntry(strFile, archive) ==
  strFile = <<>> \/ \E i \in 1..Len(archive) : archive[i].name = strFile

\* The entry of the archive for a file: its name, the file that is opened for
\* its contents and the compression method
PackedEntry(strFile, iCheck) ==
  [name |-> strFile,
   source |-> IF iCheck = 2 THEN _strMod \o strFile ELSE strFile,
   method |-> IF \E i \in 1..Len(_aNoCompression) :
                   _aNoCompression[i] = AsLower(GetFileExt(strFile))
              THEN "store" ELSE "deflate"]

\* One pass of the loop of main with a file that is not on disk not reported
PackFileForgettingMissing(listed, iCheck, r) ==
  IF iCheck = 0 THEN r
  ELSE IF NoEntry(listed.strFile, r.archive) THEN [r EXCEPT !.failed = Append(@, listed)]
  ELSE [r EXCEPT !.archive = Append(@, PackedEntry(listed.strFile, iCheck))]

\* One pass of the loop of main over the dependencies
PackFile(listed, iCheck, r) ==
  IF iCheck = 0 \/ NoEntry(listed.strFile, r.archive)
  THEN [r EXCEPT !.failed = Append(@, listed)]
  ELSE [r EXCEPT !.archive = Append(@, PackedEntry(listed.strFile, iCheck))]

RECURSIVE PackLoop(_, _, _)
\* The loop of main over the dependencies: the entries created and the files
\* that couldn't be packed
PackLoop(files, iFlags, r) ==
  IF files = <<>> THEN r
  ELSE PackLoop(Tail(files), iFlags,
                PackFile(Head(files), CheckFile(Head(files).strFile, iFlags), r))

RECURSIVE CheckLoop(_, _, _)
\* The loop of main that only checks for the physical existence of the files
CheckLoop(files, iFlags, failed) ==
  IF files = <<>> THEN failed
  ELSE IF CheckFile(Head(files).strFile, iFlags) = 0
  THEN CheckLoop(Tail(files), iFlags, Append(failed, Head(files)))
  ELSE CheckLoop(Tail(files), iFlags, failed)

(***************************************************************************)
(* The run of the program.                                                 *)
(***************************************************************************)
ScanCandidates == {nmWorldA, nmWorldB, nmWorldC, nmWorldD, nmWorldACase, nmGeneric}
DependCandidates == {nmStdGro, nmBaseTex}
ModCandidates == { <<77>> }
FlagCandidates == {"ssr", "ini", "ogg", "dep", "gro", "mod", "other"}
\* What an s32 that was never written may hold
JunkValues == {0, 12}
dirMods == <<77, 111, 100, 115, 47>>  \* "Mods/"

\* No scan is followed pass by pass
StrmIdle == [pc |-> "idle"]

RunInit ==
  /\ pc = "args"
  /\ _iFlags = 0
  /\ _strMod = <<>>
  /\ _aScanFiles = <<>>
  /\ _astrDependencies = <<>>
  /\ _aNoCompression = <<>>
  /\ _aStdDepends = {}
  /\ _aFilesToPack = <<>>
  /\ _bCountFiles = FALSE
  /\ _ctFiles = 0
  /\ iScanFile = 0
  /\ ctArgs = 0
  /\ aArchive = <<>>
  /\ aFailed = <<>>
  /\ last = [op |-> "start"]
  /\ strm = StrmIdle

\* The bit that ParseFlag sets for a flag, 0 for a flag it does not know
FlagBit(strFlag) ==
  CASE strFlag = "ssr" -> SCAN_SSR
    [] strFlag = "ini" -> SCAN_INI
    [] strFlag = "ogg" -> SCAN_OGG
    [] strFlag = "dep" -> SCAN_DEP
    [] strFlag = "gro" -> SCAN_GRO
    [] strFlag = "mod" -> SCAN_MOD
    [] OTHER -> 0

\* ParseFlag (CommandLine.cpp)
ParseFlag(strFlag) ==
  /\ pc = "args" /\ ctArgs < MaxArgs
  /\ _iFlags' = IF FlagBit(strFlag) = 0 THEN _iFlags ELSE SetFlag(_iFlags, FlagBit(strFlag))
  /\ ctArgs' = ctArgs + 1
  /\ last' = [op |-> "ParseFlag"]
  /\ UNCHANGED <<pc, _strMod, _aScanFiles, _astrDependencies, _aNoCompression,
                 _aStdDepends, _aFilesToPack, _bCountFiles, _ctFiles, iScanFile,
                 aArchive, aFailed, fx, strm>>

\* ParseInclude (CommandLine.cpp)
ParseInclude(strArg) ==
  /\ pc = "args" /\ ctArgs < MaxArgs
  /\ \E strFile \in {Replace(strArg, chBackslash, chSlash)} :
       \E added \in {AddFile(Globals, strFile, "include")} :
         /\ _aScanFiles' = Append(_aScanFiles, strFile)
         /\ IF AsLower(GetFileExt(strFile)) = extWLD
            THEN /\ _aFilesToPack' = added.g.files
                 /\ _ctFiles' = added.g.ct
                 /\ last' = [op |-> "ParseInclude", arg |-> strFile, called |-> TRUE,
                             ret |-> added.ret, files |-> _aFilesToPack]
            ELSE /\ UNCHANGED <<_aFilesToPack, _ctFiles>>
                 /\ last' = [op |-> "ParseInclude", arg |-> strFile, called |-> FALSE,
                             ret |-> FALSE, files |-> _aFilesToPack]
  /\ ctArgs' = ctArgs + 1
  /\ UNCHANGED <<pc, _iFlags, _strMod, _astrDependencies, _aNoCompression,
                 _aStdDepends, _bCountFiles, iScanFile, aArchive, aFailed, fx, strm>>

\* ParseDependency (CommandLine.cpp)
ParseDependency(strArg) ==
  /\ pc = "args" /\ ctArgs < MaxArgs
  /\ _astrDependencies' = Append(_astrDependencies, strArg)
  /\ ctArgs' = ctArgs + 1
  /\ last' = [op |-> "ParseDependency"]
  /\ UNCHANGED <<pc, _iFlags, _strMod, _aScanFiles, _aNoCompression, _aStdDepends,
                 _aFilesToPack, _bCountFiles, _ctFiles, iScanFile, aArchive, aFailed, fx, strm>>

\* ParseMod (CommandLine.cpp)
ParseMod(strArg) ==
  /\ pc = "args" /\ ctArgs < MaxArgs
  /\ IF _strMod # <<>>
     THEN pc' = "failed" /\ UNCHANGED _strMod
     ELSE pc' = pc /\ _strMod' = dirMods \o strArg \o <<chSlash>>
  /\ ctArgs' = ctArgs + 1
  /\ last' = [op |-> "ParseMod"]
  /\ UNCHANGED <<_iFlags, _aScanFiles, _astrDependencies, _aNoCompression,
                 _aStdDepends, _aFilesToPack, _bCountFiles, _ctFiles, iScanFile,
                 aArchive, aFailed, fx, strm>>

\* ParseArguments, "Add GRO files from games automatically"
DetectedDepends(eGame) ==
  IF DetectGRO(_iFlags)
  THEN IgnoreGame(_iFlags, _aStdDepends, eGame, FALSE, _strMod).depends
  ELSE _aStdDepends

\* The end of ParseArguments, after the last argument, and main up to the scan
\* loop: the standard dependencies are collected and the counting starts.
\* With no file to scan main throws before its loop.
FinishArguments ==
  /\ pc = "args" /\ ctArgs > 0
  /\ IF Len(_aScanFiles) = 0
     THEN pc' = "failed" /\ last' = [op |-> "FinishArguments"]
          /\ UNCHANGED <<_aStdDepends, _bCountFiles, _ctFiles>>
     ELSE \E eGame \in GameTypes :
            /\ DetectGRO(_iFlags) \/ eGame = "GAME_NONE"
            /\ _aStdDepends' = GoThroughDependencies(DetectedDepends(eGame),
                                                     _astrDependencies, eGame, _strMod)
            /\ _bCountFiles' = TRUE
            /\ _ctFiles' = 0
            /\ pc' = "scan"
            /\ last' = [op |-> "FinishArguments", game |-> eGame]
  /\ UNCHANGED <<_iFlags, _strMod, _aScanFiles, _astrDependencies, _aNoCompression,
                 _aFilesToPack, iScanFile, ctArgs, aArchive, aFailed, fx, strm>>

SingleCandidates == ScanCandidates \cup {nmMod \o nmWorldA}

\* The positions of the slashes of a path after "Mods/"
ModSlashes(strFile) == {i \in 6..Len(strFile) : strFile[i] = chSlash}

\* The mod directory that DetermineRootDir finds at the start of a path under
\* "Mods/": the path up to and with the second slash, "" if there is none
ModDirOf(strFile) ==
  IF StartsWith(AsLower(strFile), AsLower(dirMods)) /\ ModSlashes(strFile) # {}
  THEN SubSeq(strFile, 1,
              CHOOSE i \in ModSlashes(strFile) : \A j \in ModSlashes(strFile) : i <= j)
  ELSE <<>>

\* main with one file: may the file be opened and, if a world, verified
SingleFileOpens(strFile) ==
  /\ FileExists(strFile)
  /\ AsLower(GetFileExt(strFile)) = extWLD =>
       VerifyWorldFile(FileData(strFile), [g |-> Globals, pos |-> 0, err |-> ""]).err = ""

\* ManualSetup: the extensions to store that the user asks for
StoredTypes(bMusic, bStoreWorld) ==
  (IF bMusic THEN <<extOGG, extMP3>> ELSE <<>>) \o (IF bStoreWorld THEN <<extWLD>> ELSE <<>>)

\* main with one file, from FromFullFilePath on
SetupSingleFile(strFile, strModDir, strRelative, eGame, ignored, aStore) ==
  /\ pc' = "scan"
  /\ _strMod' = strModDir
  /\ _iFlags' = ignored.flags
  /\ _aStdDepends' = ignored.depends
  /\ _aNoCompression' = aStore
  /\ _aScanFiles' = <<strRelative>>
  /\ _aFilesToPack' = IF AsLower(GetFileExt(strFile)) = extWLD
                      THEN AddFile(Globals, strRelative, "include").g.files
                      ELSE _aFilesToPack
  /\ _bCountFiles' = TRUE
  /\ _ctFiles' = 0
  /\ last' = [op |-> "OpenSingleFile", arg |-> strFile, game |-> eGame]

\* main given one argument that is a path to a file (ParseArguments returns
\* false): the file is verified, FromFullFilePath finds the game, asks the
\* user (ManualSetup) and ignores the packages of the game
OpenSingleFile(strFile) ==
  /\ pc = "args" /\ ctArgs = 0
  /\ ctArgs' = 1
  /\ \E eGame \in GameTypes, bFolder \in BOOLEAN, bDep \in BOOLEAN, bMusic \in BOOLEAN,
        bStoreWorld \in BOOLEAN :
       /\ bFolder => AsLower(GetFileExt(strFile)) \in {extWLD, extDLL}
       /\ ~bDep \/ (~bMusic /\ ~bStoreWorld)
       /\ bStoreWorld => AsLower(GetFileExt(strFile)) = extWLD
       /\ IF ~SingleFileOpens(strFile) \/ (eGame = "GAME_NONE" /\ ~bFolder)
          THEN /\ pc' = "failed"
               /\ last' = [op |-> "OpenSingleFile", arg |-> strFile]
               /\ UNCHANGED <<_iFlags, _strMod, _aScanFiles, _aNoCompression, _aStdDepends,
                              _aFilesToPack, _bCountFiles, _ctFiles>>
          ELSE SetupSingleFile(strFile, ModDirOf(strFile),
                 Erase(strFile, 0, Len(ModDirOf(strFile))), eGame,
                 IgnoreGame(IF bDep THEN SetFlag(_iFlags, SCAN_DEP) ELSE _iFlags,
                            _aStdDepends, eGame, TRUE, ModDirOf(strFile)),
                 StoredTypes(bMusic, bStoreWorld))
  /\ UNCHANGED <<_astrDependencies, iScanFile, aArchive, aFailed, fx, strm>>

\* ScanWorld or ScanAnyFile on a file, as the scan loop of main picks it
ScanFile(g, strFile, iJunk) ==
  IF AsLower(GetFileExt(strFile)) = extWLD
  THEN ScanWorld(g, strFile, iJunk)
  ELSE ScanAnyFile(g, strFile)

\* Where main is after a scan that threw, with the loop going on to the next file
AfterScanSkippingFailed(s) ==
  IF iScanFile + 1 = Len(_aScanFiles) THEN "pack" ELSE "scan"

\* Where main is after a scan: an exception leaves the loop and main returns 1
AfterScan(s) ==
  IF s.err # "" THEN "failed"
  ELSE IF iScanFile + 1 = Len(_aScanFiles) THEN "pack" ELSE "scan"

\* One pass of the scan loop of main (Main.cpp): the file is scanned
ScanNext ==
  /\ pc = "scan" /\ iScanFile < Len(_aScanFiles)
  /\ \E iJunk \in JunkValues :
       \E s \in {ScanFile(Globals, _aScanFiles[iScanFile + 1], iJunk)} :
         /\ _aFilesToPack' = s.g.files
         /\ _ctFiles' = s.g.ct
         /\ _iFlags' = s.g.flags
         /\ _aStdDepends' = s.g.depends
         /\ last' = [op |-> "Scan", arg |-> _aScanFiles[iScanFile + 1], err |-> s.err,
                     files |-> _aFilesToPack, flags |-> _iFlags,
                     calls |-> s.g.calls, opens |-> s.g.opens]
         /\ pc' = AfterScan(s)
  /\ iScanFile' = iScanFile + 1
  /\ UNCHANGED <<_strMod, _aScanFiles, _astrDependencies, _aNoCompression,
                 _bCountFiles, ctArgs, aArchive, aFailed, fx, strm>>

\* main after the scan loop (Main.cpp): the files are packed, or only checked
PackFiles ==
  /\ pc = "pack"
  /\ IF Len(_aFilesToPack) = 0
     THEN UNCHANGED <<aArchive, aFailed>>
     ELSE IF ~OnlyDep(_iFlags)
     THEN \E r \in {PackLoop(_aFilesToPack, _iFlags, [archive |-> <<>>, failed |-> <<>>])} :
            aArchive' = r.archive /\ aFailed' = r.failed
     ELSE aFailed' = CheckLoop(_aFilesToPack, _iFlags, <<>>) /\ UNCHANGED aArchive
  /\ pc' = "done"
  /\ last' = [op |-> "PackFiles"]
  /\ UNCHANGED <<_iFlags, _strMod, _aScanFiles, _astrDependencies, _aNoCompression,
                 _aStdDepends, _aFilesToPack, _bCountFiles, _ctFiles, iScanFile, ctArgs, fx, strm>>

Init == RunInit /\ fx = FxIdle

Next ==
  \/ \E strFlag \in FlagCandidates : ParseFlag(strFlag)
  \/ \E strArg \in ScanCandidates : ParseInclude(strArg)
  \/ \E strArg \in DependCandidates : ParseDependency(strArg)
  \/ \E strArg \in ModCandidates : ParseMod(strArg)
  \/ FinishArguments
  \/ \E strFile \in SingleCandidates : OpenSingleFile(strFile)
  \/ ScanNext
  \/ PackFiles

Spec == Init /\ [][Next]_vars

\* The normalizer applied to every raw filename, and to its result
InitFix == RunInit /\ FixInit

NextFix ==
  \/ FixOnce
  \/ FixTwice

SpecFix == InitFix /\ [][NextFix]_vars


(***************************************************************************)
(* The scanning functions on their own: one call of a function in the      *)
(* middle of a scan loop, from every combination of flags, mod directory,  *)
(* standard dependencies and files scheduled so far of a small choice.     *)
(***************************************************************************)
\* The globals of a run that has scheduled nothing yet
PipeStart == [files |-> <<>>, ct |-> 0, count |-> TRUE, flags |-> 0, depends |-> {},
              calls |-> <<>>, opens |-> <<>>]

\* _iFlags after any of "-f ssr", "-f ini", "-f ogg", and of "-f mod" with a mod
PipeFlagStates(strMod) ==
  {a + b + c + d : a \in {0, SCAN_SSR}, b \in {0, SCAN_INI}, c \in {0, SCAN_OGG},
                   d \in IF strMod = <<>> THEN {0} ELSE {0, SCAN_MOD}}

\* The dependencies given with -d
PipeDependLists == {<<>>, <<nmStdGro>>, <<nmRevGro>>, <<nmBaseTex, nmStdGro>>}

\* The files an earlier scan has scheduled
PipeScheduled == {<<>>, <<nmTreeMdl>>, <<nmTreeIni, nmBaseTex, nmStdTex>>}

RECURSIVE PipeAddFiles(_, _)
PipeAddFiles(g, names) ==
  IF names = <<>> THEN g
  ELSE PipeAddFiles(AddFile(g, Head(names), "pipeline").g, Tail(names))

\* Normalized filenames, as FixFilename hands them to TryToAddFile
PipeNames ==
  {nmTreeMdl, <<77, 79, 68, 69, 76, 83, 47, 84, 82, 69, 69, 46, 77, 68, 76>>, <<77, 111, 100, 101, 108, 115, 77, 80, 47, 84, 114, 101, 101, 46, 109, 100, 108>>, <<77, 111, 100, 101, 108, 115, 47, 66, 117, 115, 104, 46, 77, 68, 76>>,
   nmStdTex, <<84, 101, 120, 116, 117, 114, 101, 115, 77, 80, 47, 83, 116, 100, 46, 116, 101, 120>>, <<84, 101, 120, 116, 117, 114, 101, 115, 47, 77, 121, 32, 84, 101, 120, 46, 116, 101, 120>>, <<84, 101, 120, 116, 117, 114, 101, 115, 77, 80, 47, 77, 121, 32, 84, 101, 120, 46, 116, 101, 120>>,
   nmMp3, <<77, 117, 115, 105, 99, 77, 80, 47, 97, 46, 109, 112, 51>>, <<77, 117, 115, 105, 99, 47, 66, 46, 77, 80, 51>>, nmOgg, <<83, 111, 117, 110, 100, 115, 47, 120, 46, 119, 97, 118>>,
   nmFxTex, nmFx2Tex, nmGlowTex, nmBaseTex, <<77, 111, 100, 115, 47, 77, 47, 88, 46, 116, 101, 120>>,
   nmOpenTex, nmEndTex, nmSlashTex}

PipeInit ==
  /\ pc = "pipe"
  /\ _strMod \in {<<>>, nmMod}
  /\ _iFlags \in PipeFlagStates(_strMod)
  /\ _aScanFiles = <<>>
  /\ _astrDependencies \in PipeDependLists
  /\ _aStdDepends = GoThroughDependencies({}, _astrDependencies, "GAME_NONE", _strMod)
  /\ _aNoCompression = <<>>
  /\ \E names \in PipeScheduled :
       /\ _aFilesToPack = PipeAddFiles(PipeStart, names).files
       /\ _ctFiles = Len(names)
  /\ _bCountFiles = TRUE
  /\ iScanFile = 0
  /\ ctArgs = 0
  /\ aArchive = <<>>
  /\ aFailed = <<>>
  /\ last = [op |-> "start"]
  /\ strm = StrmIdle
  /\ fx = FxIdle

\* The globals and the history after a call that ended with `g'
PipeDone(g, op, arg, err, pos) ==
  /\ pc' = "piped"
  /\ _aFilesToPack' = g.files
  /\ _ctFiles' = g.ct
  /\ _iFlags' = g.flags
  /\ _aStdDepends' = g.depends
  /\ last' = [op |-> op, arg |-> arg, err |-> err, pos |-> pos, files |-> _aFilesToPack,
              flags |-> _iFlags, calls |-> g.calls, opens |-> g.opens]
  /\ UNCHANGED <<_strMod, _aScanFiles, _astrDependencies, _aNoCompression,
                 _bCountFiles, iScanFile, ctArgs, aArchive, aFailed, fx, strm>>

\* TryToAddFile(strFilename) (DictionaryReader.cpp)
PipeTryToAddFile(strFilename) ==
  /\ pc = "pipe"
  /\ PipeDone(TryToAddFile(Globals, strFilename), "TryToAddFile", strFilename, "", 0)

\* The filenames of the records of a dictionary, as they are in the file
PipeRawNames == {rawTreeMdl, <<>>, rawStdTexMP, <<chBackslash>>}
PipeDictionaries == UNION {[1..n -> PipeRawNames] : n \in 0..2}

\* A dictionary with the given count and records
CountedDict(ctFiles, names) == tagDICT \o Int32(ctFiles) \o DictEntries(names) \o tagDEND

\* ScanWorldDictionary(strm) (DictionaryReader.cpp) on a dictionary whose count
\* is the number of its records, or one less
PipeScanWorldDictionary(names, ctFiles) ==
  /\ pc = "pipe"
  /\ ctFiles \in {Len(names), Len(names) - 1} /\ ctFiles >= 0
  /\ \E iJunk \in JunkValues :
       \E s \in {ScanWorldDictionary(CountedDict(ctFiles, names),
                                     [g |-> Globals, pos |-> 0, err |-> ""], iJunk)} :
         PipeDone(s.g, "ScanWorldDictionary", [names |-> names, ctFiles |-> ctFiles],
                  s.err, s.pos)

\* What a text file has after the marker TFNM and the space: a run of
\* characters, what ends it, and more text if it is ended
\* (one of them a run of 300 characters that nothing ends)
PipeRuns == {rawWallTex, <<77, 111, 100, 101, 108, 115, 47, 84, 114, 101, 101, 46, 109, 100, 108>>, <<>>, <<chBackslash, chBackslash>>}
PipeRunEnds == {<<chNewline>>, <<chReturn>>, <<chNull>>, <<>>}
PipeTexts ==
  {run \o end \o (IF end = <<>> THEN <<>> ELSE <<122, 122>>) : run \in PipeRuns, end \in PipeRunEnds}
    \cup {[i \in 1..300 |-> 97]}

\* The main loop of ScanAnyFile (DictionaryReader.cpp) on a file with the
\* text marker, a space and the text
PipeScanAnyFile(before, text) ==
  /\ pc = "pipe"
  /\ Len(text) < 300 \/ before = <<>>
  /\ \E s \in {ScanAnyLoop(before \o tagTFNM \o <<chSpace>> \o text,
                            [g |-> Globals, pos |-> 0, err |-> ""])} :
       PipeDone(s.g, "ScanAnyFile", [before |-> before, text |-> text], s.err, s.pos)

\* The markers of the two dictionaries of a world file, and the places where a
\* file may have something else: one marker replaced, or a byte between the
\* end of the first dictionary and the DPOS after it
PipeDefects == {"none", "DICT1", "DFNM1", "DEND1", "gap", "DPOS2", "DICT2", "DFNM2", "DEND2"}
PipeNames1 == <<rawTreeMdl, rawStdTexMP>>
PipeNames2 == <<rawLead, rawWallTex>>

\* A marker, or other bytes if the file is damaged at it
MarkerAt(tag, at, here) == IF at = here THEN <<88, 88, 88, 88>> ELSE tag

\* A dictionary of two records, damaged at `at' if that is one of its markers
\* (of the records, the second is)
DamagedDict(names, at, strDict, strName, strEnd) ==
  Concat(<<MarkerAt(tagDICT, at, strDict), Int32(2),
           tagDFNM, WriteString(names[1]),
           MarkerAt(tagDFNM, at, strName), WriteString(names[2]),
           MarkerAt(tagDEND, at, strEnd)>>)

\* What a world file has from the first DPOS on: each dictionary at the
\* offset that is stored after a DPOS
DamagedDictionaries(at, ctBefore, dict1, gap) ==
  Concat(<<tagDPOS, Int32(ctBefore + 8 + Len(brushData)), brushData, dict1, gap,
           MarkerAt(tagDPOS, at, "DPOS2"),
           Int32(ctBefore + 8 + Len(brushData) + Len(dict1) + Len(gap) + 8 + Len(brushData)),
           brushData, DamagedDict(PipeNames2, at, "DICT2", "DFNM2", "DEND2")>>)

\* A world file that is damaged at `at'
DamagedWorld(at, info) ==
  info \o DamagedDictionaries(at, Len(info),
                              DamagedDict(PipeNames1, at, "DICT1", "DFNM1", "DEND1"),
                              IF at = "gap" THEN <<103>> ELSE <<>>)

\* ScanWorld (DictionaryReader.cpp) on an open world file
PipeScanWorld(at) ==
  /\ pc = "pipe"
  /\ \E iJunk \in JunkValues :
       \E s \in {ScanOpenWorld(DamagedWorld(at, WorldInfo([head |-> tagBUIV, mark |-> tagWRLD,
                                                           chunks |-> {"DTRS"}])),
                               Globals, nmWorldC, iJunk)} :
         PipeDone(s.g, "ScanWorld", [at |-> at], s.err, s.pos)

\* The worlds by the extra files they have on disk: A a thumbnail texture and
\* a VIS file (under the mod a VIS file only), B a regular thumbnail, C a
\* thumbnail texture, E all three, F none
PipeWorlds == {nmWorldA, nmWorldB, nmWorldC, nmWorldE, nmWorldF}

\* ScanWorld (DictionaryReader.cpp) on an open world file with a given name,
\* that begins with BUIV or does not
PipeScanWorldNamed(strWorld, head) ==
  /\ pc = "pipe"
  /\ \E iJunk \in JunkValues :
       \E s \in {ScanOpenWorld(DamagedWorld("none", WorldInfo([head |-> head, mark |-> tagWRLD,
                                                               chunks |-> {"DTRS"}])),
                               Globals, strWorld, iJunk)} :
         PipeDone(s.g, "ScanWorldNamed", [strWorld |-> strWorld, head |-> head],
                  s.err, s.pos)

InitPipe == PipeInit

NextPipe ==
  \/ \E strFilename \in PipeNames : PipeTryToAddFile(strFilename)
  \/ \E before \in {<<>>, <<120, 120>>}, text \in PipeTexts : PipeScanAnyFile(before, text)
  \/ \E at \in PipeDefects : PipeScanWorld(at)
  \/ \E strWorld \in PipeWorlds, head \in {tagBUIV, <<88, 85, 73, 86>>} :
       PipeScanWorldNamed(strWorld, head)
  \/ \E names \in PipeDictionaries, ctFiles \in 0..2 : PipeScanWorldDictionary(names, ctFiles)

SpecPipe == InitPipe /\ [][NextPipe]_vars

(***************************************************************************)
(* The loops of the scans pass by pass: `strm' holds the bytes of the file *)
(* and the cursor, a step is one pass of a loop.  The program runs each    *)
(* loop to its end without waiting for anything, so a pass that can be     *)
(* made is made (weak fairness).                                           *)
(***************************************************************************)
\* Files for the main loop of ScanAnyFile
LoopAnyFiles ==
  {DataGeneric,
   tagTFNM \o <<chSpace, chNewline>> \o tagEFNM \o <<chNull>> \o <<122, 122, 122, 122>>,
   tagDFNM \o Int32(300) \o <<97, 98, 99>> \o tagDFNM \o Int32(0) \o <<122, 122, 122, 122>>,
   <<120, 120>> \o tagTFNM,
   tagDFNM \o WriteString(rawWallTex) \o tagEFNM \o rawTreeMdl}

\* Files for the backward scan of AddExtrasWithTEX
LoopTextures == {DataFxTex, DataFx2Tex, MakeTex(tagFXDT, <<110, 111, 110, 117, 108, 108>>), MakeTex(tagFXDT, <<>>)}

\* Files for the search of ScanWorld for DPOS
LoopWorlds == {DataWorldA, <<120, 120, 68, 80, 79, 121, 68, 80, 79>>, <<68, 80, 79, 68, 80, 79, 83, 122, 122>>}

\* Dictionaries: the count goes beyond the records, or is negative
LoopDictionaries ==
  {CountedDict(2, PipeNames1), CountedDict(100, PipeNames1),
   CountedDict(1, PipeNames1), tagDICT \o <<255, 255, 255, 255>> \o tagDEND}

LoopStarts ==
  {[pc |-> "any", data |-> data, pos |-> 0] : data \in LoopAnyFiles}
    \cup {[pc |-> "back", data |-> data, b |-> BackScanStart(data)] : data \in LoopTextures}
    \cup {[pc |-> "find", data |-> data, f |-> [pos |-> 0, done |-> FALSE]] :
            data \in LoopWorlds}
    \cup {[pc |-> "dict", data |-> data, pos |-> 4 + 4, err |-> "", iFile |-> 0,
           ctFiles |-> ReadS32(data, 4, 0)] : data \in LoopDictionaries}

LoopInit ==
  /\ pc = "loop"
  /\ _iFlags \in {0, SCAN_INI}
  /\ _strMod = <<>>
  /\ _aScanFiles = <<>>
  /\ _astrDependencies = <<>>
  /\ _aNoCompression = <<>>
  /\ _aStdDepends = {}
  /\ _aFilesToPack = <<>>
  /\ _bCountFiles = TRUE
  /\ _ctFiles = 0
  /\ iScanFile = 0
  /\ ctArgs = 0
  /\ aArchive = <<>>
  /\ aFailed = <<>>
  /\ last = [op |-> "start"]
  /\ fx = FxIdle
  /\ strm \in LoopStarts

\* The globals after a pass that ended with `g'
LoopGlobals(g) ==
  /\ _aFilesToPack' = g.files
  /\ _ctFiles' = g.ct
  /\ _iFlags' = g.flags
  /\ last' = [op |-> "pass", calls |-> g.calls]
  /\ UNCHANGED <<pc, _strMod, _aScanFiles, _astrDependencies, _aNoCompression, _aStdDepends,
                 _bCountFiles, iScanFile, ctArgs, aArchive, aFailed, fx>>

\* A loop is left
LoopEnd == strm' = [pc |-> "end", was |-> strm] /\ LoopGlobals(Globals)

\* One pass of the main loop of ScanAnyFile, or its end
AnyPass ==
  /\ strm.pc = "any"
  /\ IF ScanAnyOver(strm.data, strm) THEN LoopEnd
     ELSE \E s \in {ScanAnyStep(strm.data, [g |-> Globals, pos |-> strm.pos, err |-> ""])} :
            /\ strm' = [strm EXCEPT !.pos = s.pos]
            /\ LoopGlobals(s.g)

\* One pass of the backward scan of AddExtrasWithTEX, or its end
BackPass ==
  /\ strm.pc = "back"
  /\ IF BackScanOver(strm.b) THEN LoopEnd
     ELSE strm' = [strm EXCEPT !.b = BackScanStep(strm.data, @)] /\ LoopGlobals(Globals)

\* One pass of the search of ScanWorld for DPOS, or its end
FindPass ==
  /\ strm.pc = "find"
  /\ IF FindOver(strm.data, strm.f) THEN LoopEnd
     ELSE strm' = [strm EXCEPT !.f = FindStep(strm.data, @)] /\ LoopGlobals(Globals)

\* One pass of the loop of ScanWorldDictionary, or its end
DictionaryPass ==
  /\ strm.pc = "dict"
  /\ IF DictionaryOver(strm, strm.iFile, strm.ctFiles) THEN LoopEnd
     ELSE \E s \in {DictionaryStep(strm.data,
                                   [g |-> Globals, pos |-> strm.pos, err |-> ""])} :
            /\ strm' = [strm EXCEPT !.pos = s.pos, !.err = s.err, !.iFile = @ + 1]
            /\ LoopGlobals(s.g)

InitLoop == LoopInit

NextLoop ==
  \/ AnyPass
  \/ BackPass
  \/ FindPass
  \/ DictionaryPass

SpecLoop == InitLoop /\ [][NextLoop]_vars /\ WF_vars(NextLoop)
(***************************************************************************)
(* Properties of the scheduled files.                                      *)
(***************************************************************************)
\* A letter in the other case
SwapCaseChar(ch) ==
  IF ch >= 65 /\ ch <= 90 THEN ch + 32
  ELSE IF ch >= 97 /\ ch <= 122 THEN ch - 32
  ELSE ch

\* A name that differs from `s' only by the case of its letters
SwapCase(s) == [i \in 1..Len(s) |-> SwapCaseChar(s[i])]

IsPrefix(s, t) == Len(s) <= Len(t) /\ SubSeq(t, 1, Len(s)) = s

\* C1: _aFilesToPack never holds two entries whose lowercase forms are equal,
\* and AddFile with a name that differs from an entry only by case returns
\* false and leaves the list (and the counter) as they are.
NoCaseDuplicates ==
  /\ \A i, j \in 1..Len(_aFilesToPack) :
       AsLower(_aFilesToPack[i].strFile) = AsLower(_aFilesToPack[j].strFile) => i = j
  /\ \A i \in 1..Len(_aFilesToPack) :
       \A strName \in {SwapCase(_aFilesToPack[i].strFile), AsLower(_aFilesToPack[i].strFile)} :
         /\ ~AddFile(Globals, strName, "include").ret
         /\ AddFile(Globals, strName, "include").g = Globals
  /\ (last.op = "ParseInclude" /\ last.called /\ ~last.ret) => _aFilesToPack = last.files

\* C1 happens: "-i A.wld -i a.WLD" scheduled the world once, the second
\* AddFile returned false; and a scan met Models\Tree.mdl in both cases
WitnessCaseDuplicate ==
  \/ /\ last.op = "ParseInclude" /\ last.called /\ ~last.ret
     /\ last.arg = nmWorldACase
     /\ Len(_aFilesToPack) = 1 /\ _aFilesToPack[1].strFile = nmWorldA
  \/ /\ last.op = "Scan" /\ last.arg = nmWorldA /\ last.err = ""
     /\ \E i \in 1..Len(_aFilesToPack) : _aFilesToPack[i].strFile = nmTreeMdl

\* The entries of _aFilesToPack that the given code scheduled have no key
\* among the standard dependencies
NoneInDepends(by) ==
  \A i \in 1..Len(_aFilesToPack) :
    _aFilesToPack[i].by \in by => ~InDepends(Globals, AsLower(_aFilesToPack[i].strFile))

DependsFrozenWhileScanning ==
  [][pc # "args" => _aStdDepends' = _aStdDepends]_vars

\* C3 happens: a scan has scheduled files while standard dependencies were set
WitnessScanWithDepends ==
  /\ last.op = "Scan" /\ last.err = ""
  /\ _aStdDepends # {}
  /\ Len(_aFilesToPack) > Len(last.files)

\* C4: every step leaves the previous _aFilesToPack as a prefix of the new one.
FilesOnlyAppended ==
  [][IsPrefix(_aFilesToPack, _aFilesToPack')]_vars

\* C4 happens: one scan appended several files to a list that was not empty
WitnessFilesAppended ==
  /\ last.op = "Scan"
  /\ Len(last.files) >= 1
  /\ Len(_aFilesToPack) >= Len(last.files) + 2
  /\ IsPrefix(last.files, _aFilesToPack)

\* C5: every bit of _iFlags that is set before a step is set after it.
FlagsOnlyTurnOn ==
  [][\A bit \in AllFlagBits : HasFlag(_iFlags, bit) => HasFlag(_iFlags', bit)]_vars

\* C5 happens: a scan set SSR while another flag was set, and both are set
WitnessFlagTurnedOn ==
  /\ last.op = "Scan"
  /\ ~IsRev(last.flags) /\ PackINI(last.flags)
  /\ IsRev(_iFlags) /\ PackINI(_iFlags)

(***************************************************************************)
(* Properties of FixFilename.                                              *)
(***************************************************************************)
\* C6: the output of FixFilename has no backslash, no two adjacent slashes
\* and no slash at its beginning, and the characters that are no separators
\* are those of the input, in their order and case.
FixedIsCanonical ==
  fx.pc \in {"fixed", "again"} =>
    /\ ~Contains(fx.out1, chBackslash)
    /\ ~HasDoubleSlash(fx.out1)
    /\ fx.out1 = <<>> \/ fx.out1[1] # chSlash
    /\ NonSeps(fx.out1) = NonSeps(fx.raw)

\* C6 happens: "/\aB" is fixed to "aB"
WitnessCanonical ==
  fx.pc = "fixed" /\ fx.raw = <<chSlash, chBackslash, 97, 66>> /\ fx.out1 = <<97, 66>>

\* C7: for an input with "//" the output has no "//" and SSR is set after the
\* call; SSR is set whenever the input has a forward slash, two adjacent
\* separators (a doubled slash is collapsed) or a separator at its beginning
\* (a leading slash is stripped).
SlashesMarkRevolution ==
  fx.pc \in {"fixed", "again"} =>
    /\ HasDoubleSlash(fx.raw) => ~HasDoubleSlash(fx.out1) /\ IsRev(fx.flags1)
    /\ Contains(fx.raw, chSlash) => IsRev(fx.flags1)
    /\ HasAdjacentSeps(fx.raw) => IsRev(fx.flags1)
    /\ (fx.raw # <<>> /\ IsSep(fx.raw[1])) => IsRev(fx.flags1)

\* C7 happens: "a//B" with no flag set is fixed to "a/B" and SSR is set
WitnessDoubleSlash ==
  /\ fx.pc = "fixed" /\ fx.raw = <<97, chSlash, chSlash, 66>> /\ fx.flags0 = 0
  /\ fx.out1 = <<97, chSlash, 66>> /\ IsRev(fx.flags1)

\* C8 as stated: FixFilename on its own output returns it unchanged and sets
\* no bit of the flags that was not set before the call.
FixIsIdempotent ==
  fx.pc = "again" =>
    /\ fx.out2 = fx.out1
    /\ \A bit \in AllFlagBits : HasFlag(fx.flags2, bit) => HasFlag(fx.flagsB, bit)

\* C8, amended: FixFilename on its own output returns it unchanged; of the
\* flags it sets SSR if that output has a forward slash and changes no other.
FixIsIdempotentOnNames ==
  fx.pc = "again" =>
    /\ fx.out2 = fx.out1
    /\ fx.flags2 = IF Contains(fx.out1, chSlash) THEN SetFlag(fx.flagsB, SCAN_SSR)
                   ELSE fx.flagsB

\* C8 happens: "a\B" is fixed to "a/B"; fixed again with no flag set it is
\* unchanged and SSR is set
WitnessFixedAgain ==
  /\ fx.pc = "again" /\ fx.raw = <<97, chBackslash, 66>> /\ fx.flagsB = 0
  /\ fx.out2 = <<97, chSlash, 66>> /\ fx.flags2 = SCAN_SSR

(***************************************************************************)
(* Properties of the scan loop.                                            *)
(***************************************************************************)
\* C9 as stated: after the scan of a file that is not the last of the list,
\* failed or not, the loop goes on to the next file.
ScanGoesOnAfterFailure ==
  [][(pc = "scan" /\ iScanFile' = iScanFile + 1 /\ iScanFile' < Len(_aScanFiles))
       => pc' = "scan"]_vars

\* C9, amended: a file that cannot be opened or fails the validation of its
\* format ends the scan loop and the run; no file after it is scanned and
\* nothing is packed.
ScanFailureEndsRun ==
  [][/\ (pc = "scan" /\ iScanFile' = iScanFile + 1 /\ last'.err # "") => pc' = "failed"
     /\ pc = "failed" =>
          /\ pc' = "failed"
          /\ UNCHANGED <<iScanFile, _aFilesToPack, aArchive, aFailed>>]_vars

\* C9 happens: a file could not be opened while files after it were listed
WitnessScanFailure ==
  /\ pc = "failed" /\ last.op = "Scan" /\ last.err = errOpen
  /\ iScanFile < Len(_aScanFiles)
  /\ aArchive = <<>>

\* The bytes of a file do not begin with BUIV, or have no WRLD after the
\* four bytes of the build version
LacksWorldMarkers(data) ==
  \/ Len(data) < 12
  \/ SubSeq(data, 1, 4) # tagBUIV
  \/ SubSeq(data, 9, 12) # tagWRLD

\* C10: the scan of a world file without the BUIV marker, or without the WRLD
\* marker after the build version, throws the format error and leaves
\* _aFilesToPack, _ctFiles and _iFlags as they were.
BadWorldSchedulesNothing ==
  [][(/\ pc = "scan" /\ iScanFile' = iScanFile + 1
      /\ AsLower(GetFileExt(_aScanFiles[iScanFile + 1])) = extWLD
      /\ FileExists(_strMod \o _aScanFiles[iScanFile + 1])
      /\ LacksWorldMarkers(FileData(_strMod \o _aScanFiles[iScanFile + 1])))
       => /\ pc' = "failed"
          /\ last'.err = errWorld
          /\ UNCHANGED <<_aFilesToPack, _ctFiles, _iFlags>>]_vars

\* C10 happens: D.wld, which has its thumbnail and VIS file on disk, has
\* another marker where WRLD is expected; its scan threw
WitnessBadWorld ==
  /\ pc = "failed" /\ last.op = "Scan" /\ last.arg = nmWorldD /\ last.err = errWorld
  /\ FileExists(RemoveExt(nmWorldD) \o sufTbn)
  /\ _aFilesToPack = last.files


(***************************************************************************)
(* Properties of the scanning functions.                                   *)
(***************************************************************************)
\* The names of the entries of a list of files
FileNames(files) == [i \in 1..Len(files) |-> files[i].strFile]

\* The names that are not empty, normalized, in their order
FixedNames(names) ==
  [i \in 1..Len(SelectSeq(names, LAMBDA n : n # <<>>)) |->
     FixFilename(SelectSeq(names, LAMBDA n : n # <<>>)[i], 0).str]

\* C11: ScanWorldDictionary on a dictionary with count n and n records reads
\* to the end of the dictionary without an error; TryToAddFile is called once
\* for each of the first n filenames that is not empty, with the normalized
\* name, in the order of the stream, and not for an empty one.  With count 2
\* and the records Models\Tree.mdl and "" into an empty list with no
\* dependencies, exactly Models/Tree.mdl is scheduled, and Models/Tree.ini
\* after it when configs are packed.
DictionaryHandsNamesInOrder ==
  last.op = "ScanWorldDictionary" =>
    /\ last.calls = FixedNames(SubSeq(last.arg.names, 1, last.arg.ctFiles))
    /\ last.arg.ctFiles = Len(last.arg.names) =>
         /\ last.err = ""
         /\ last.pos = Len(CountedDict(last.arg.ctFiles, last.arg.names))
    /\ last.arg.ctFiles < Len(last.arg.names) => last.err = errExpect
    /\ (last.arg.names = <<rawTreeMdl, <<>>>> /\ last.arg.ctFiles = 2
        /\ last.files = <<>> /\ _aStdDepends = {}) =>
         FileNames(_aFilesToPack) = IF PackINI(last.flags) THEN <<nmTreeMdl, nmTreeIni>>
                                    ELSE <<nmTreeMdl>>

\* C11 happens: the dictionary with count 2 and the records Models\Tree.mdl
\* and "" was scanned into an empty list: one call, one file scheduled
WitnessEmptyRecord ==
  /\ last.op = "ScanWorldDictionary" /\ last.err = ""
  /\ last.arg.names = <<rawTreeMdl, <<>>>> /\ last.arg.ctFiles = 2
  /\ last.files = <<>> /\ ~PackINI(last.flags)
  /\ last.calls = <<nmTreeMdl>>
  /\ FileNames(_aFilesToPack) = <<nmTreeMdl>>

\* The positions of the null characters of a file that are after offset 56
\* (the first byte is at offset 0)
TailNulls(data) == {i \in 58..Len(data) : data[i] = chNull}

\* The bytes of a file after its last null character
TailName(data) ==
  SubSeq(data, 1 + CHOOSE i \in TailNulls(data) : \A j \in TailNulls(data) : j <= i,
         Len(data))

\* A texture with the FXDT marker at offset 36 that ends with a null
\* character at an offset greater than 56 and one character or more after it
HasBaseTextureName(data) ==
  /\ Len(data) >= 40 /\ SubSeq(data, 37, 40) = tagFXDT
  /\ TailNulls(data) # {}
  /\ data[Len(data)] # chNull

\* Do the standard dependencies satisfy a name: by its key or, for
\* Revolution, by its key with the directory and then the spaces replaced
SatisfiedByDepends(strKey, iFlags) ==
  \/ Hash(strKey) \in _aStdDepends
  \/ /\ IsRev(iFlags)
     /\ \/ Hash(ReplaceRevDirs(strKey)) \in _aStdDepends
        \/ Hash(Replace(ReplaceRevDirs(strKey), chSpace, chUnderscore)) \in _aStdDepends

\* C12: when TryToAddFile schedules a texture whose file is opened and has a
\* base texture name (FXDT at offset 36, a last null character at an offset
\* greater than 56, the name after it up to the end), the name is normalized
\* and it is scheduled right after the texture, unless the standard
\* dependencies satisfy it or it was scheduled before.
BaseTextureIsScheduled ==
  (/\ last.op = "TryToAddFile"
   /\ Len(_aFilesToPack) > Len(last.files)
   /\ Len(last.opens) = 1 /\ FileExists(last.opens[1])
   /\ HasBaseTextureName(FileData(last.opens[1])))
    => \E strBaseTex \in {FixFilename(TailName(FileData(last.opens[1])), 0).str} :
         IF SatisfiedByDepends(AsLower(strBaseTex), _iFlags)
            \/ \E i \in 1..Len(last.files) :
                 AsLower(last.files[i].strFile) = AsLower(strBaseTex)
         THEN FileNames(_aFilesToPack) = FileNames(last.files) \o <<last.arg>>
         ELSE FileNames(_aFilesToPack) = FileNames(last.files) \o <<last.arg, strBaseTex>>

\* C12 happens: textures/fx2.tex ends with "\0/TexturesMP//Base 2.tex"; it
\* and TexturesMP/Base 2.tex were scheduled
WitnessBaseTexture ==
  /\ last.op = "TryToAddFile" /\ last.arg = nmFx2Tex
  /\ last.files = <<>>
  /\ FileNames(_aFilesToPack) = <<nmFx2Tex, <<84, 101, 120, 116, 117, 114, 101, 115, 77, 80, 47, 66, 97, 115, 101, 32, 50, 46, 116, 101, 120>>>>
  /\ _aFilesToPack[2].by = "basetex"

IsSuffix(s, t) == Len(s) <= Len(t) /\ SubSeq(t, Len(t) - Len(s) + 1, Len(t)) = s

\* C13: every path that is opened for a dependency is the name of a scheduled
\* file as it is in the list, in its original case, under the root or the
\* mod directory; and the file TryToAddFile schedules has the name it was
\* given, in its case (without the mod directory if that is removed).
FileAccessUsesScheduledPath ==
  last.op = "TryToAddFile" =>
    /\ \A i \in 1..Len(last.opens) :
         \E j \in 1..Len(_aFilesToPack) :
           last.opens[i] \in {_aFilesToPack[j].strFile, _strMod \o _aFilesToPack[j].strFile}
    /\ \A j \in 1..Len(_aFilesToPack) :
         (j > Len(last.files) /\ _aFilesToPack[j].by = "pipeline")
           => IsSuffix(_aFilesToPack[j].strFile, last.arg)

\* The positions of a text at which a newline, a carriage return or a null
\* character is, and the position after its end
RunStops(text) ==
  {i \in 1..Len(text) : text[i] \in {chNewline, chReturn, chNull}} \cup {Len(text) + 1}

\* The characters of a text before the first of them, 254 at most
RunOf(text) ==
  SubSeq(text, 1,
         Min(254, (CHOOSE i \in RunStops(text) : \A j \in RunStops(text) : i <= j) - 1))

\* C14: the generic scan of a file with the marker TFNM, a space and a text
\* calls TryToAddFile once, with the normalized run of the text up to its
\* first newline, carriage return or null character or its end, cut at 254
\* characters (and not at all for an empty run).  TFNM followed by
\* " Textures\Wall.tex\n" schedules Textures/Wall.tex.
TextMarkerYieldsRun ==
  last.op = "ScanAnyFile" =>
    /\ last.err = ""
    /\ last.calls = IF RunOf(last.arg.text) = <<>> THEN <<>>
                    ELSE <<FixFilename(RunOf(last.arg.text), 0).str>>
    /\ (RunOf(last.arg.text) = rawWallTex /\ _aStdDepends = {} /\ last.files = <<>>)
         => FileNames(_aFilesToPack) = <<nmWallTex>>

\* C14 happens: "xxTFNM Textures\Wall.tex\nzz" was scanned, the name was
\* scheduled; and of a run of 300 characters, 254 were taken
WitnessTextMarker ==
  \/ /\ last.op = "ScanAnyFile" /\ last.arg.before = <<120, 120>>
     /\ last.arg.text = rawWallTex \o <<chNewline>> \o <<122, 122>>
     /\ last.calls = <<nmWallTex>>
     /\ FileNames(_aFilesToPack) = FileNames(last.files) \o <<nmWallTex>>
  \/ /\ last.op = "ScanAnyFile" /\ Len(last.arg.text) >= 300
     /\ Len(last.calls) = 1 /\ Len(last.calls[1]) = 254

(***************************************************************************)
(* Properties of the packing.                                              *)
(***************************************************************************)
\* Is a file among those that couldn't be packed
HasFailed(strFile) == \E i \in 1..Len(aFailed) : aFailed[i].strFile = strFile

\* C15: when main has packed, the entries of the archive are the scheduled
\* files that were not reported as failed, in the order of the list, each
\* once; and every scheduled file that CheckFile does not find is reported,
\* while the files after it in the list are packed all the same.
ArchiveIsScheduledMinusFailed ==
  (pc = "done" /\ ~OnlyDep(_iFlags)) =>
    /\ [i \in 1..Len(aArchive) |-> aArchive[i].name]
         = SelectSeq(FileNames(_aFilesToPack), LAMBDA strFile : ~HasFailed(strFile))
    /\ \A i \in 1..Len(aFailed) :
         \E j \in 1..Len(_aFilesToPack) : _aFilesToPack[j] = aFailed[i]
    /\ \A j \in 1..Len(_aFilesToPack) :
         CheckFile(_aFilesToPack[j].strFile, _iFlags) = 0
           => HasFailed(_aFilesToPack[j].strFile)

\* C15 happens: a file that is not on disk was reported and a file after it
\* in the list was packed
WitnessPackedAfterMissing ==
  /\ pc = "done" /\ ~OnlyDep(_iFlags)
  /\ \E i, j \in 1..Len(_aFilesToPack) :
       /\ i < j
       /\ CheckFile(_aFilesToPack[i].strFile, _iFlags) = 0
       /\ HasFailed(_aFilesToPack[i].strFile)
       /\ \E k \in 1..Len(aArchive) : aArchive[k].name = _aFilesToPack[j].strFile

(***************************************************************************)
(* Properties of the world scan.                                           *)
(***************************************************************************)
\* The names of the records that are before the place where a world file is
\* damaged: what a scan reads before it meets the damage
NamesBefore(at) ==
  CASE at = "DICT1" -> <<>>
    [] at = "DFNM1" -> SubSeq(PipeNames1, 1, 1)
    [] at \in {"DEND1", "gap", "DPOS2", "DICT2"} -> PipeNames1
    [] at = "DFNM2" -> PipeNames1 \o SubSeq(PipeNames2, 1, 1)
    [] OTHER -> PipeNames1 \o PipeNames2

\* C16: ScanWorld returns normally only for the file with DICT, the records
\* with DFNM and DEND at the offset stored after the first DPOS, DPOS right
\* after that DEND, and DICT, the records with DFNM and DEND at the offset
\* stored after it; with another marker at any of these places, or DPOS not
\* right after DEND, it throws, having called TryToAddFile for the records
\* before that place only.  The names of the first dictionary are handed on
\* before those of the second.
WorldNeedsBothDictionaries ==
  last.op = "ScanWorld" =>
    /\ last.err = "" <=> last.arg.at = "none"
    /\ last.arg.at # "none" => last.err = errExpect
    /\ last.calls = FixedNames(NamesBefore(last.arg.at))

\* C16 happens: the file with all its markers was scanned to its end, and the
\* file without DPOS after the first dictionary threw after that dictionary
WitnessSecondDictionary ==
  \/ /\ last.op = "ScanWorld" /\ last.arg.at = "none" /\ last.err = ""
     /\ last.calls = FixedNames(PipeNames1 \o PipeNames2)
     /\ last.pos = Len(DamagedWorld("none", WorldInfo([head |-> tagBUIV, mark |-> tagWRLD,
                                                       chunks |-> {"DTRS"}])))
  \/ /\ last.op = "ScanWorld" /\ last.arg.at = "DPOS2" /\ last.err = errExpect
     /\ last.calls = FixedNames(PipeNames1)

(***************************************************************************)
(* Termination of the scans.                                               *)
(***************************************************************************)
\* C17: every loop of a scan comes to its end.  A pass of the main loop of
\* ScanAnyFile moves the cursor forward by one byte at least; a pass of the
\* backward scan for the base texture moves it back by one byte, or forward
\* by one on the null character that ends the scan; a pass of the search for
\* DPOS and a pass of the dictionary loop move it forward, and the
\* dictionary loop ends with an exception when its count goes beyond the
\* records of the file.
ScansTerminate ==
  /\ [][/\ (strm.pc = "any" /\ strm'.pc = "any") => strm'.pos >= strm.pos + 1
        /\ (strm.pc = "find" /\ strm'.pc = "find") => strm'.f.pos >= strm.f.pos + 1
        /\ (strm.pc = "dict" /\ strm'.pc = "dict") =>
             strm'.err # "" \/ strm'.pos >= strm.pos + 4
        /\ (strm.pc = "back" /\ strm'.pc = "back") =>
             strm'.b.done \/ strm'.b.pos = strm.b.pos - 1]_vars
  /\ <>(strm.pc = "end")

\* C17 happens: the main loop of ScanAnyFile came to its end after a pass
\* that read a filename, and the dictionary loop with the count 100 on two
\* records came to its end with the exception
WitnessLoopEnded ==
  \/ /\ strm.pc = "end" /\ strm.was.pc = "any" /\ strm.was.data = DataGeneric
     /\ Len(_aFilesToPack) >= 3
  \/ /\ strm.pc = "end" /\ strm.was.pc = "dict" /\ strm.was.ctFiles = 100
     /\ strm.was.err = errExpect

(***************************************************************************)
(* The checks of TryToAddFile.                                             *)
(***************************************************************************)
\* How many characters TryToAddFile erases from the front of a name
ErasedLength(strFilename, iFlags) ==
  ModPrefixLength([flags |-> iFlags], AsLower(strFilename))

\* The name TryToAddFile schedules for the name it is given
NameOf(strFilename, iFlags) == Erase(strFilename, 0, ErasedLength(strFilename, iFlags))

\* The key of the name TryToAddFile is given
KeyOf(strFilename, iFlags) ==
  Erase(AsLower(strFilename), 0, ErasedLength(strFilename, iFlags))

\* Was a name in the list before the call, the case ignored
WasListed(strFilename) ==
  \E i \in 1..Len(last.files) : AsLower(last.files[i].strFile) = AsLower(strFilename)

\* Has the call left the list as it was
NothingScheduled == FileNames(_aFilesToPack) = FileNames(last.files)

\* The config of a model, in a list, unless it was listed before
ConfigOf(strModel) ==
  IF WasListed(RemoveExt(strModel) \o extINI) THEN <<>>
  ELSE <<RemoveExt(strModel) \o extINI>>

\* C18: when TryToAddFile schedules a file whose key has the extension .mdl
\* and configs are packed, the file with the same name and the extension
\* .ini is added right after it by AddFile (that is, unless it is in the
\* list already), whether it exists or not, and nothing else is added; in
\* every other call no file is added as a config, and a name that was in the
\* list or whose key is among the dependencies leaves the list as it was.
ModelBringsConfig ==
  last.op = "TryToAddFile" =>
    /\ IF /\ Len(_aFilesToPack) > Len(last.files)
          /\ GetFileExt(KeyOf(last.arg, last.flags)) = extMDL
          /\ PackINI(last.flags)
       THEN /\ FileNames(_aFilesToPack)
                 = FileNames(last.files) \o <<NameOf(last.arg, last.flags)>>
                     \o ConfigOf(NameOf(last.arg, last.flags))
            /\ _aFilesToPack[Len(last.files) + 1].by = "pipeline"
            /\ \A i \in (Len(last.files) + 2)..Len(_aFilesToPack) : _aFilesToPack[i].by = "ini"
       ELSE \A i \in (Len(last.files) + 1)..Len(_aFilesToPack) : _aFilesToPack[i].by # "ini"
    /\ (WasListed(NameOf(last.arg, last.flags))
        \/ Hash(KeyOf(last.arg, last.flags)) \in _aStdDepends) => NothingScheduled

\* C18 happens: MODELS/TREE.MDL was scheduled with configs packed, and
\* MODELS/TREE.ini, a file that does not exist, after it
WitnessModelConfig ==
  /\ last.op = "TryToAddFile" /\ last.arg = <<77, 79, 68, 69, 76, 83, 47, 84, 82, 69, 69, 46, 77, 68, 76>>
  /\ PackINI(last.flags)
  /\ FileNames(_aFilesToPack) = FileNames(last.files) \o <<last.arg, <<77, 79, 68, 69, 76, 83, 47, 84, 82, 69, 69, 46, 105, 110, 105>>>>
  /\ ~FileExists(<<77, 79, 68, 69, 76, 83, 47, 84, 82, 69, 69, 46, 105, 110, 105>>)

\* C19: with the Revolution flag set, whatever the other flags are, a name
\* whose key after ReplaceRevDirs is among the dependencies, or whose key
\* after ReplaceRevDirs and with its spaces replaced by underscores is among
\* them, is not scheduled; with the flag clear, a name that is not in the
\* list, whose key is not among the dependencies, and that the check for OGG
\* does not skip, is scheduled.
RevKeySkipsFile ==
  last.op = "TryToAddFile" =>
    /\ (/\ IsRev(last.flags)
        /\ \/ Hash(ReplaceRevDirs(KeyOf(last.arg, last.flags))) \in _aStdDepends
           \/ Hash(Replace(ReplaceRevDirs(KeyOf(last.arg, last.flags)),
                           chSpace, chUnderscore)) \in _aStdDepends)
         => NothingScheduled
    /\ (/\ ~IsRev(last.flags)
        /\ ~WasListed(NameOf(last.arg, last.flags))
        /\ Hash(KeyOf(last.arg, last.flags)) \notin _aStdDepends
        /\ ~(/\ PackOGG(last.flags)
             /\ GetFileExt(KeyOf(last.arg, last.flags)) = extMP3
             /\ Hash(RemoveExt(KeyOf(last.arg, last.flags)) \o extOGG) \in _aStdDepends))
         => /\ Len(_aFilesToPack) > Len(last.files)
            /\ _aFilesToPack[Len(last.files) + 1].strFile = NameOf(last.arg, last.flags)

\* C20: with the OGG flag set, a name whose key has the extension .mp3 is not
\* scheduled if the key with the extension .ogg is among the dependencies;
\* with the flag clear, or for another extension, the name is left out
\* exactly if it is in the list or the dependencies satisfy its own key.
OggStandsInForMp3 ==
  last.op = "TryToAddFile" =>
    /\ (/\ PackOGG(last.flags)
        /\ GetFileExt(KeyOf(last.arg, last.flags)) = extMP3
        /\ Hash(RemoveExt(KeyOf(last.arg, last.flags)) \o extOGG) \in _aStdDepends)
         => NothingScheduled
    /\ (~PackOGG(last.flags) \/ GetFileExt(KeyOf(last.arg, last.flags)) # extMP3)
         => (NothingScheduled
               <=> \/ WasListed(NameOf(last.arg, last.flags))
                   \/ SatisfiedByDepends(KeyOf(last.arg, last.flags), last.flags))

\* C20 happens: Music/a.mp3 was not scheduled with the OGG flag set, its own
\* key not among the dependencies and music/a.ogg among them
WitnessOggForMp3 ==
  /\ last.op = "TryToAddFile" /\ last.arg = nmMp3
  /\ PackOGG(last.flags)
  /\ Hash(AsLower(nmMp3)) \notin _aStdDepends
  /\ Hash(AsLower(nmOgg)) \in _aStdDepends
  /\ NothingScheduled

(***************************************************************************)
(* The extra files of a world.                                             *)
(***************************************************************************)
\* A name in a list if the file is on disk under the mod directory (or the
\* root, without a mod)
IfOnDisk(strExtra) == IF FileExists(_strMod \o strExtra) THEN <<strExtra>> ELSE <<>>

\* The thumbnail of a world: the thumbnail texture if it is on disk, else the
\* regular thumbnail if that is
ThumbnailOf(strNoExt) ==
  IF IfOnDisk(strNoExt \o sufTbnTex) # <<>> THEN IfOnDisk(strNoExt \o sufTbnTex)
  ELSE IfOnDisk(strNoExt \o sufTbn)

\* The names of a list that were not in the list of files before the call
NotListed(names) == SelectSeq(names, LAMBDA n : ~WasListed(n))

\* The entries that a call has added that are not extra files of a world
AddedByNames ==
  SelectSeq(SubSeq(_aFilesToPack, Len(last.files) + 1, Len(_aFilesToPack)),
            LAMBDA f : f.by \notin {"thumbnail", "vis"})

\* C21: ScanWorld on a world that is verified and whose info is parsed adds
\* its thumbnail, the texture <world>Tbn.tex if that is on disk, else
\* <world>.tbn if that is, and never both, then <world>.vis exactly if it is
\* on disk, whatever the standard dependencies hold, before every file that
\* it adds for the names of the dictionaries; on a world that is not
\* verified it adds nothing.
WorldExtrasComeFirst ==
  last.op = "ScanWorldNamed" =>
    IF last.arg.head = tagBUIV
    THEN /\ last.err = ""
         /\ FileNames(_aFilesToPack)
              = FileNames(last.files)
                  \o NotListed(ThumbnailOf(RemoveExt(last.arg.strWorld))
                               \o IfOnDisk(RemoveExt(last.arg.strWorld) \o sufVis))
                  \o FileNames(AddedByNames)
         /\ last.calls = FixedNames(PipeNames1 \o PipeNames2)
    ELSE last.err = errWorld /\ _aFilesToPack = last.files

\* C21 happens: E.wld has both thumbnails and a VIS file on disk and the
\* dependencies hold ETbn.tex and E.vis; ETbn.tex and E.vis were scheduled
\* before the first file that was added for a name of the dictionaries, and
\* E.tbn was not
WitnessWorldExtras ==
  /\ last.op = "ScanWorldNamed" /\ last.arg.strWorld = nmWorldE /\ last.arg.head = tagBUIV
  /\ last.files = <<>> /\ _strMod = <<>>
  /\ Hash(AsLower(RemoveExt(nmWorldE) \o sufTbnTex)) \in _aStdDepends
  /\ Hash(AsLower(RemoveExt(nmWorldE) \o sufVis)) \in _aStdDepends
  /\ Len(_aFilesToPack) >= 3
  /\ SubSeq(FileNames(_aFilesToPack), 1, 2)
       = <<RemoveExt(nmWorldE) \o sufTbnTex, RemoveExt(nmWorldE) \o sufVis>>
  /\ _aFilesToPack[3].by = "pipeline"
  /\ \A i \in 1..Len(_aFilesToPack) :
       _aFilesToPack[i].strFile # RemoveExt(nmWorldE) \o sufTbn

(***************************************************************************)
(* Packing.                                                                *)
(***************************************************************************)
\* C22: the file that is opened for the contents of an entry of the archive
\* is on disk: it is a path at which CheckFile found the file, under the mod
\* directory, under the root, or, for Revolution, under the root after
\* ReplaceRevDirs.
EntrySourceWasChecked ==
  \A i \in 1..Len(aArchive) :
    /\ FileExists(aArchive[i].source)
    /\ aArchive[i].source
         \in {_strMod \o aArchive[i].name, aArchive[i].name, ReplaceRevDirs(aArchive[i].name)}

(***************************************************************************)
(* The base texture of a texture without a name.                           *)
(***************************************************************************)
\* Is a file an effect texture: FXDT at offset 36
IsEffectTexture(data) == Len(data) >= 40 /\ SubSeq(data, 37, 40) = tagFXDT

\* C23: when the texture that TryToAddFile opens is an effect texture with
\* no null character at the offsets from 57 to its last byte, or with a null
\* character as its last byte, no base texture is scheduled: the list gets
\* the texture itself and nothing else.
NoTerminatorNoBaseTexture ==
  (/\ last.op = "TryToAddFile"
   /\ Len(last.opens) = 1 /\ FileExists(last.opens[1])
   /\ IsEffectTexture(FileData(last.opens[1]))
   /\ \/ TailNulls(FileData(last.opens[1])) = {}
      \/ FileData(last.opens[1])[Len(FileData(last.opens[1]))] = chNull)
    => FileNames(_aFilesToPack) = FileNames(last.files) \o <<last.arg>>

(***************************************************************************)
(* Empty names.                                                            *)
(***************************************************************************)
\* C24: no file of the list has the empty name: a filename of a dictionary,
\* of a file of another format or of a texture that is empty after
\* FixFilename, as "/" and "\\" are, is not scheduled.
NoEmptyNameScheduled ==
  \A i \in 1..Len(_aFilesToPack) : _aFilesToPack[i].strFile # <<>>
=============================================================================
